---- MODULE Spec2Model ----
(***************************************************************************)
(* Genome-Automaton: the four motif recognizers (DFA, NFA, EpsilonNFA,     *)
(* PDA) as one state machine per engine.  Strings are sequences of         *)
(* one-character strings; intervals are pairs <<start, end>> with the      *)
(* 0-based inclusive indices the Python code uses.                         *)
(***************************************************************************)
EXTENDS Integers, Sequences, FiniteSets, TLC

VARIABLES
    kind,                \* automata_type of the engine that was constructed
    pattern,             \* DFA.pattern (the upper-cased literal)
    transitions,         \* DFA.transitions / NFA.transitions
    current_state,       \* DFA.current_state
    alternatives,        \* NFA.alternatives
    final_return_edges,  \* NFA._final_return_edges
    next_state_id,       \* NFA._next_state_id
    current_states,      \* NFA.current_states / EpsilonNFA.current_states
    head,                \* EpsilonNFA.head
    min_gap,             \* EpsilonNFA.min_gap
    max_gap,             \* EpsilonNFA.max_gap
    tail,                \* EpsilonNFA.tail
    min_len,             \* PDA.min_len
    stack,               \* PDA.stack
    pos,                 \* PDA.pos
    mode,                \* PDA.mode
    ret,                 \* what the last call returned (or that it raised)
    frame                \* the locals of a find_all_matches call in progress

vars == <<kind, pattern, transitions, current_state, alternatives,
          final_return_edges, next_state_id, current_states, head, min_gap,
          max_gap, tail, min_len, stack, pos, mode, ret, frame>>

\* What a constructor sets and no later call assigns.
config == <<kind, pattern, transitions, alternatives, final_return_edges,
            next_state_id, head, min_gap, max_gap, tail, min_len>>

(***************************************************************************)
(* Bounds of the model.                                                    *)
(***************************************************************************)
MaxPatLen == 3       \* longest DFA pattern drawn
MaxSeqLen == 4       \* longest sequence handed to find_all_matches
MaxNfaPatLen == 3    \* longest NFA pattern text drawn
MaxMotifLen == 1     \* longest head and tail of a spacer pattern drawn
MaxGap == 2          \* largest spacer bound drawn
MaxMinLen == 4       \* largest min_len a PDA is constructed with
MaxPos == 9          \* most symbols stepped through a PDA between resets
MaxShortSeqLen == 2  \* longest sequence searched in the middle of a simulation
MaxParseLen == 4     \* longest arbitrary text handed to _parse_enfa_pattern
MaxPermuted == 4     \* largest set whose every iteration order is tried

(***************************************************************************)
(* Alphabet and input symbols.                                             *)
(***************************************************************************)
alphabet == {"A", "T", "G", "C"}

\* Letters patterns are drawn from (a subset of the alphabet).
PatternLetters == {"A", "T"}

\* Symbols of the sequences a DFA searches: the pattern letters, a base
\* outside every pattern and the out-of-alphabet symbol N (which DFA.step
\* tells apart from a base).
SeqSymbols == PatternLetters \cup {"G", "N"}

\* Symbols of the sequences an NFA or an EpsilonNFA searches: their searches
\* treat every symbol outside the pattern alike.
PlainSeqSymbols == PatternLetters \cup {"G"}

\* Symbols handed to step: as SeqSymbols, and a lower-case base.
StepSymbols == SeqSymbols \cup {"a"}

\* str.upper() on one character.
Upper(c) ==
    CASE c = "a" -> "A"
      [] c = "t" -> "T"
      [] c = "g" -> "G"
      [] c = "c" -> "C"
      [] c = "n" -> "N"
      [] OTHER -> c

\* str.upper() on a string.
UpperStr(s) == [i \in 1..Len(s) |-> Upper(s[i])]

SeqsUpTo(S, n) == UNION {[1..k -> S] : k \in 0..n}

\* Python slice s[a:b] for 0 <= a (0-based, end exclusive, clipped to the string).
Slice(s, a, b) ==
    LET hi == IF b > Len(s) THEN Len(s) ELSE b
    IN  IF a >= hi THEN <<>> ELSE [i \in 1..(hi - a) |-> s[a + i]]

\* The record of the last call: which operation, its argument (sym or seq),
\* what it returned (is_match, label, matches) and whether it raised; again
\* says that a find_all_matches directly followed another one; tag is the
\* automata_type create_automaton was called with (Direct when the class was
\* constructed without the factory).
Direct == "direct"

NoRet == [op |-> "init", sym |-> "", is_match |-> FALSE, label |-> "",
          raised |-> FALSE, seq |-> <<>>, matches |-> <<>>, again |-> FALSE,
          tag |-> Direct]

\* What a constructor called through tag via leaves: an engine, or the error
\* it raised.
InitRet(via, raised) == [NoRet EXCEPT !.tag = via, !.raised = raised]

StepRet(sym, m, r) == [NoRet EXCEPT !.op = "step", !.sym = sym,
                                    !.is_match = m, !.raised = r]

FindRet(s, ms, r) == [NoRet EXCEPT !.op = "find", !.seq = s, !.matches = ms,
                                   !.raised = r, !.again = (ret.op = "find")]

ResetRet == [NoRet EXCEPT !.op = "reset"]

\* No find_all_matches call is in progress: between calls there are no
\* locals.
NoFrame == [pc |-> "idle", sequence |-> <<>>, s |-> <<>>, i |-> 0, l |-> 0,
            r |-> 0, g |-> 0, matches |-> <<>>]

\* The sequences a caller hands to find_all_matches: any of Seqs, except that
\* directly after a search only that search is repeated (another search is
\* reached through any other call; no operation reads ret).
FindInputs(Seqs) == IF ret.op = "find" THEN {ret.seq} ELSE Seqs

(***************************************************************************)
(* DFA (automata_engine.py)                                                *)
(***************************************************************************)

\* Mutant: every non-matching symbol falls back to Q0.
BuildLinearChainNoRestart(p) ==
    LET n == Len(p)
    IN  IF n = 0
        THEN [k \in {<<0, sym>> : sym \in alphabet} |-> 0]
        ELSE [k \in (0..(n - 1)) \X alphabet |->
                LET i == k[1]
                    sym == k[2]
                IN  IF sym = p[i + 1]
                    THEN (IF i = n - 1 THEN 0 ELSE i + 1)
                    ELSE 0]

\* Mutant: a non-matching symbol leaves the state where it is.
BuildLinearChainStay(p) ==
    LET n == Len(p)
    IN  IF n = 0
        THEN [k \in {<<0, sym>> : sym \in alphabet} |-> 0]
        ELSE [k \in (0..(n - 1)) \X alphabet |->
                LET i == k[1]
                    sym == k[2]
                IN  IF sym = p[i + 1]
                    THEN (IF i = n - 1 THEN 0 ELSE i + 1)
                    ELSE i]

\* DFA._build_linear_chain: the table over (state, symbol).
BuildLinearChain(p) ==
    LET n == Len(p)
    IN  IF n = 0
        THEN [k \in {<<0, sym>> : sym \in alphabet} |-> 0]
        ELSE [k \in (0..(n - 1)) \X alphabet |->
                LET i == k[1]
                    sym == k[2]
                IN  IF sym = p[i + 1]
                    THEN (IF i = n - 1 THEN 0 ELSE i + 1)
                    ELSE (IF sym = p[1] /\ i # 0 THEN 1 ELSE 0)]

\* DFA.get_states: list(range(len(self.pattern))).
DfaGetStates(p) == 0..(Len(p) - 1)

\* DFA.get_transitions: the table in the form (state, symbol) -> set of
\* next states.
DfaGetTransitions(trans) == [k \in DOMAIN trans |-> {trans[k]}]

\* DFA.get_important_restart_edges: the edge of the last state on the last
\* pattern character.
DfaGetImportantRestartEdges(p) ==
    IF Len(p) > 0 THEN {<<Len(p) - 1, p[Len(p)]>>} ELSE {}

\* DFA.get_initial_states
DfaGetInitialStates == {0}

\* DFA.get_accept_states
DfaGetAcceptStates == {0}

\* DFA.get_current_states
DfaGetCurrentStates(cur) == {cur}

\* dict.get(key, default)
DictGet(d, key, default) == IF key \in DOMAIN d THEN d[key] ELSE default

\* Mutant: the table is consulted without the test symbol in alphabet.
DfaStepResultNoGuard(p, trans, cur, symbol) ==
    LET sym == Upper(symbol)
        nxt == DictGet(trans, <<cur, sym>>, 0)
    IN  [state |-> nxt,
         is_match |-> (cur = Len(p) - 1) /\ (nxt = 0) /\ Len(p) > 0
                      /\ sym = p[Len(p)],
         raised |-> FALSE]

\* Mutant: is_match only compares the symbol with the pattern's last one.
DfaStepResultLastSymbol(p, trans, cur, symbol) ==
    LET sym == Upper(symbol)
        nxt == DictGet(trans, <<cur, sym>>, 0)
    IN  IF sym \in alphabet
        THEN [state |-> nxt,
              is_match |-> Len(p) > 0 /\ sym = p[Len(p)],
              raised |-> FALSE]
        ELSE [state |-> cur, is_match |-> FALSE, raised |-> FALSE]

\* Mutant: the test for the last state is >= instead of ==, so that the
\* empty pattern gets as far as pattern[-1].
DfaStepResultAtLeastLast(p, trans, cur, symbol) ==
    LET sym == Upper(symbol)
        nxt == DictGet(trans, <<cur, sym>>, 0)
        reachesLast == (cur >= Len(p) - 1) /\ (nxt = 0)
    IN  IF sym \in alphabet
        THEN IF reachesLast /\ Len(p) = 0
             THEN [state |-> cur, is_match |-> FALSE, raised |-> TRUE]
             ELSE [state |-> nxt,
                   is_match |-> reachesLast /\ sym = p[Len(p)],
                   raised |-> FALSE]
        ELSE [state |-> cur, is_match |-> FALSE, raised |-> FALSE]

\* Mutant: every return to Q0 from the last state counts as a match.
DfaStepResultAnyReturn(p, trans, cur, symbol) ==
    LET sym == Upper(symbol)
        nxt == DictGet(trans, <<cur, sym>>, 0)
    IN  IF sym \in alphabet
        THEN [state |-> nxt,
              is_match |-> (cur = Len(p) - 1) /\ (nxt = 0),
              raised |-> FALSE]
        ELSE [state |-> cur, is_match |-> FALSE, raised |-> FALSE]

\* DFA.step on (pattern, table, state): the new state, is_match, and whether
\* evaluating pattern[-1] raised IndexError (empty pattern).
DfaStepResult(p, trans, cur, symbol) ==
    LET sym == Upper(symbol)
        nxt == DictGet(trans, <<cur, sym>>, 0)
        reachesLast == (cur = Len(p) - 1) /\ (nxt = 0)
    IN  IF sym \in alphabet
        THEN IF reachesLast /\ Len(p) = 0
             THEN [state |-> cur, is_match |-> FALSE, raised |-> TRUE]
             ELSE [state |-> nxt,
                   is_match |-> reachesLast /\ sym = p[Len(p)],
                   raised |-> FALSE]
        ELSE [state |-> cur, is_match |-> FALSE, raised |-> FALSE]

\* DFA.reset
DfaResetState == 0

\* The states DFA.step returns when called on the symbols of s from number
\* i on (0-based), starting in state cur.
RECURSIVE DfaRun(_, _, _, _, _)
DfaRun(p, trans, cur, s, i) ==
    IF i >= Len(s) THEN <<>>
    ELSE LET r == DfaStepResult(p, trans, cur, s[i + 1])
         IN  <<r.state>> \o DfaRun(p, trans, r.state, s, i + 1)

\* The loop of DFA.find_all_matches from index i (0-based) with the engine
\* in state cur.
RECURSIVE DfaScan(_, _, _, _, _, _)
DfaScan(p, trans, cur, s, i, matches) ==
    IF i >= Len(s)
    THEN [state |-> cur, matches |-> matches, raised |-> FALSE]
    ELSE LET r == DfaStepResult(p, trans, cur, s[i + 1])
         IN  IF r.raised
             THEN [state |-> r.state, matches |-> matches, raised |-> TRUE]
             ELSE DfaScan(p, trans, r.state, s, i + 1,
                          IF r.is_match
                          THEN Append(matches, <<i - Len(p) + 1, i>>)
                          ELSE matches)

\* Mutant: the scan starts from the state the engine is in.
DfaFindStartStale(cur) == cur

\* The state the scan of DFA.find_all_matches starts from: self.reset().
DfaFindStart(cur) == DfaResetState

\* DFA.find_all_matches: reset, scan, reset.
DfaFindAllMatches(p, trans, cur, s) ==
    LET r == DfaScan(p, trans, DfaFindStart(cur), s, 0, <<>>)
    IN  [state |-> IF r.raised THEN r.state ELSE DfaResetState,
         matches |-> r.matches, raised |-> r.raised]

DfaPatterns == SeqsUpTo(PatternLetters, MaxPatLen)

Sequences == SeqsUpTo(SeqSymbols, MaxSeqLen)

\* The sequences searched where the four engines are driven side by side.
ShortSequences == SeqsUpTo(PatternLetters, MaxShortSeqLen)

\* DFA.__init__, called directly or through the factory (via).
NewDFA(via) ==
    /\ kind = "DFA"
    /\ \E p \in DfaPatterns :
          /\ pattern = UpperStr(p)
          /\ transitions = BuildLinearChain(UpperStr(p))
    /\ current_state = 0
    /\ alternatives = <<>> /\ final_return_edges = {} /\ next_state_id = 0
    /\ current_states = {}
    /\ head = <<>> /\ min_gap = 0 /\ max_gap = 0 /\ tail = <<>>
    /\ min_len = 0 /\ stack = <<>> /\ pos = 0 /\ mode = ""
    /\ ret = InitRet(via, FALSE)
    /\ frame = NoFrame

InitDFA == NewDFA(Direct)

DfaReset ==
    /\ kind = "DFA"
    /\ current_state' = DfaResetState
    /\ ret' = ResetRet
    /\ UNCHANGED <<config, frame, current_states, stack, pos, mode>>

DfaStep ==
    /\ kind = "DFA"
    /\ \E symbol \in StepSymbols :
          LET r == DfaStepResult(pattern, transitions, current_state, symbol)
          IN  /\ current_state' = r.state
              /\ ret' = StepRet(symbol, r.is_match, r.raised)
    /\ UNCHANGED <<config, frame, current_states, stack, pos, mode>>

DfaFind(Seqs) ==
    /\ kind = "DFA"
    /\ \E s \in FindInputs(Seqs) :
          LET r == DfaFindAllMatches(pattern, transitions, current_state, s)
          IN  /\ current_state' = r.state
              /\ ret' = FindRet(s, r.matches, r.raised)
    /\ UNCHANGED <<config, frame, current_states, stack, pos, mode>>

NextDFA == DfaReset \/ DfaStep \/ DfaFind(Sequences)

SpecDFA == InitDFA /\ [][NextDFA]_vars

(***************************************************************************)
(* NFA (nfa_engine.py)                                                     *)
(***************************************************************************)

\* str.split("|"): the pieces between separators, empty pieces included.
RECURSIVE SplitFrom(_, _, _, _)
SplitFrom(s, i, piece, acc) ==
    IF i > Len(s) THEN Append(acc, piece)
    ELSE IF s[i] = "|" THEN SplitFrom(s, i + 1, <<>>, Append(acc, piece))
    ELSE SplitFrom(s, i + 1, Append(piece, s[i]), acc)

SplitBar(s) == SplitFrom(s, 1, <<>>, <<>>)

\* [p for p in parts if p]
DropEmpty(parts) == SelectSeq(parts, LAMBDA x : x # <<>>)

\* NFA.__init__, the parse: the non-empty pieces of the upper-cased pattern,
\* or one empty alternative when there is none.
ParseAlternatives(raw) ==
    LET alts == DropEmpty(SplitBar(UpperStr(raw)))
    IN  IF alts = <<>> THEN << <<>> >> ELSE alts

\* NFA._add_edge on a graph g = [trans, finals, next_id, prefix_to_state].
AddEdge(trans, u, sym, v) ==
    IF <<u, sym>> \in DOMAIN trans
    THEN [trans EXCEPT ![<<u, sym>>] = @ \cup {v}]
    ELSE trans @@ (<<u, sym>> :> {v})

\* The marking of a final-return edge in NFA._build_graph.
MarkFinal(finals, u, ch) == finals \cup {<<u, ch>>}

\* Mutant: every alternative gets states of its own, a prefix it shares with
\* an earlier alternative included.
RECURSIVE BuildAltUnshared(_, _, _, _)
BuildAltUnshared(g, alt, i, u) ==
    IF i >= Len(alt) THEN g
    ELSE LET ch == alt[i + 1]
         IN  IF i = Len(alt) - 1
             THEN [g EXCEPT !.trans = AddEdge(g.trans, u, ch, 0),
                            !.finals = MarkFinal(g.finals, u, ch)]
             ELSE LET v == g.next_id
                      g1 == [g EXCEPT !.next_id = @ + 1]
                  IN  BuildAltUnshared(
                          [g1 EXCEPT !.trans = AddEdge(g1.trans, u, ch, v)],
                          alt, i + 1, v)

\* The inner loop of NFA._build_graph for one alternative, from character
\* i (0-based) at state u.
RECURSIVE BuildAlt(_, _, _, _)
BuildAlt(g, alt, i, u) ==
    IF i >= Len(alt) THEN g
    ELSE LET ch == alt[i + 1]
         IN  IF i = Len(alt) - 1
             THEN [g EXCEPT !.trans = AddEdge(g.trans, u, ch, 0),
                            !.finals = MarkFinal(g.finals, u, ch)]
             ELSE LET prefix == SubSeq(alt, 1, i + 1)
                      isNew == prefix \notin DOMAIN g.prefix_to_state
                      v == IF isNew THEN g.next_id ELSE g.prefix_to_state[prefix]
                      g1 == IF isNew
                            THEN [g EXCEPT !.next_id = @ + 1,
                                           !.prefix_to_state = @ @@ (prefix :> v)]
                            ELSE g
                  IN  BuildAlt([g1 EXCEPT !.trans = AddEdge(g1.trans, u, ch, v)],
                               alt, i + 1, v)

\* The outer loop of NFA._build_graph from alternative number j (1-based).
RECURSIVE BuildFrom(_, _, _)
BuildFrom(g, alts, j) ==
    IF j > Len(alts) THEN g
    ELSE BuildFrom(BuildAlt(g, alts[j], 0, 0), alts, j + 1)

\* NFA._build_graph on the fields NFA.__init__ sets up.
BuildGraph(alts) ==
    BuildFrom([trans |-> <<>>, finals |-> {}, next_id |-> 1,
               prefix_to_state |-> (<<>> :> 0)], alts, 1)

\* NFA.get_states: list(range(self._next_state_id)).
NfaGetStates(next_id) == 0..(next_id - 1)

\* NFA.get_important_restart_edges: a copy of the final-return edges.
NfaGetImportantRestartEdges(finals) == finals

\* NFA.get_initial_states
NfaGetInitialStates == {0}

\* NFA.get_accept_states
NfaGetAcceptStates == {0}

\* NFA.get_current_states: a copy of the active set.
NfaGetCurrentStates(cur) == cur

\* NFA.get_transitions: a copy of the table, already (state, symbol) -> set.
NfaGetTransitions(trans) == [k \in DOMAIN trans |-> trans[k]]

\* NFA.reset
NfaResetStates == {0}

\* Mutant: no new attempt is started from Q0 while a path is in flight.
NfaCandidatesNoRestart(prev) == prev

\* The states NFA.step fires transitions from: the active set and Q0.
NfaCandidates(prev) == prev \cup {0}

\* Mutant: Q0 is not re-seeded when no edge fired.
NfaReseedNone(nxt) == nxt

\* The active set NFA.step ends with when the fired edges lead to nxt.
NfaReseed(nxt) == IF nxt = {} THEN {0} ELSE nxt

\* Mutant: a match is flagged only on a return to Q0 from another state.
NfaStepResultNonZeroSource(trans, finals, cur, symbol) ==
    LET sym == Upper(symbol)
        candidates == NfaCandidates(cur)
        fired == {u \in candidates : <<u, sym>> \in DOMAIN trans}
        nxt == UNION {trans[<<u, sym>>] : u \in fired}
        matched == \E u \in fired : \E v \in trans[<<u, sym>>] :
                      v = 0 /\ u # 0
    IN  [states |-> NfaReseed(nxt), is_match |-> matched]

\* Mutant: a step that reports a match drops the paths in flight.
NfaStepResultDropsOnMatch(trans, finals, cur, symbol) ==
    LET sym == Upper(symbol)
        candidates == NfaCandidates(cur)
        fired == {u \in candidates : <<u, sym>> \in DOMAIN trans}
        nxt == UNION {trans[<<u, sym>>] : u \in fired}
        matched == \E u \in fired : \E v \in trans[<<u, sym>>] :
                      <<u, sym>> \in finals \/ (v = 0 /\ u # 0)
    IN  [states |-> IF matched THEN {0} ELSE NfaReseed(nxt),
         is_match |-> matched]

\* NFA.step on (transitions, final-return edges, active set).
NfaStepResult(trans, finals, cur, symbol) ==
    LET sym == Upper(symbol)
        candidates == NfaCandidates(cur)
        fired == {u \in candidates : <<u, sym>> \in DOMAIN trans}
        nxt == UNION {trans[<<u, sym>>] : u \in fired}
        matched == \E u \in fired : \E v \in trans[<<u, sym>>] :
                      <<u, sym>> \in finals \/ (v = 0 /\ u # 0)
    IN  [states |-> NfaReseed(nxt), is_match |-> matched]

\* The is_match values of NFA.step called on the symbols of s from number i
\* on (0-based), starting with the active set cur.
RECURSIVE NfaFeed(_, _, _, _, _)
NfaFeed(trans, finals, cur, s, i) ==
    IF i >= Len(s) THEN <<>>
    ELSE LET r == NfaStepResult(trans, finals, cur, s[i + 1])
         IN  <<r.is_match>> \o NfaFeed(trans, finals, r.states, s, i + 1)

\* Whether string x is an element of the list alts.
InList(x, alts) == \E j \in 1..Len(alts) : alts[j] = x

\* The loop "for u in candidates" of NFA.step with the candidates visited in
\* the order given, from position j on; acc holds next_states and
\* matched_now.
RECURSIVE NfaStepLoop(_, _, _, _, _, _)
NfaStepLoop(trans, finals, sym, order, j, acc) ==
    IF j > Len(order) THEN acc
    ELSE LET u == order[j]
             targets == DictGet(trans, <<u, sym>>, {})
         IN  NfaStepLoop(trans, finals, sym, order, j + 1,
                [next |-> acc.next \cup targets,
                 matched |-> acc.matched
                             \/ \E v \in targets :
                                   <<u, sym>> \in finals \/ (v = 0 /\ u # 0)])

\* NFA.step when the set candidates is iterated in the order given.
NfaStepInOrder(trans, finals, cur, symbol, order) ==
    LET r == NfaStepLoop(trans, finals, Upper(symbol), order, 1,
                         [next |-> {}, matched |-> FALSE])
    IN  [states |-> NfaReseed(r.next), is_match |-> r.matched]

\* Mutant: in the loop over alt_lens the last length that fits is taken,
\* without the test Lcand > L.
RECURSIVE LongestAtLastWins(_, _, _, _, _, _)
LongestAtLastWins(alts, s, i, order, j, L) ==
    IF j > Len(order) THEN L
    ELSE LET Lcand == order[j]
         IN  LongestAtLastWins(alts, s, i, order, j + 1,
                       IF i - Lcand + 1 >= 0
                          /\ InList(Slice(s, i - Lcand + 1, i + 1), alts)
                       THEN Lcand ELSE L)

\* The loop over alt_lens in NFA.find_all_matches, in the iteration order
\* given by the sequence order: the length L chosen at position i.
RECURSIVE LongestAt(_, _, _, _, _, _)
LongestAt(alts, s, i, order, j, L) ==
    IF j > Len(order) THEN L
    ELSE LET Lcand == order[j]
         IN  LongestAt(alts, s, i, order, j + 1,
                       IF Lcand > L /\ i - Lcand + 1 >= 0
                          /\ InList(Slice(s, i - Lcand + 1, i + 1), alts)
                       THEN Lcand ELSE L)

\* The state the scan of NFA.find_all_matches starts from: self.reset().
NfaFindStart(cur) == NfaResetStates

\* The state NFA.find_all_matches leaves: self.reset().
NfaFindEnd(cur) == NfaResetStates

\* The loop of NFA.find_all_matches from index i (0-based).
RECURSIVE NfaScan(_, _, _, _, _, _, _, _)
NfaScan(alts, trans, finals, cur, s, order, i, matches) ==
    IF i >= Len(s) THEN [states |-> cur, matches |-> matches]
    ELSE LET r == NfaStepResult(trans, finals, cur, s[i + 1])
             L == LongestAt(alts, s, i, order, 1, 0)
         IN  NfaScan(alts, trans, finals, r.states, s, order, i + 1,
                     IF r.is_match /\ L # 0
                     THEN Append(matches, <<i - L + 1, i>>)
                     ELSE matches)

\* alt_lens of NFA.find_all_matches.
AltLens(alts) == {Len(alts[j]) : j \in {k \in 1..Len(alts) : alts[k] # <<>>}}

\* The orders in which a set may be iterated.
Orders(S) ==
    {o \in [1..Cardinality(S) -> S] : \A x \in S : \E j \in DOMAIN o : o[j] = x}

\* NFA.find_all_matches: upper-case, reset, scan, reset.
NfaFindAllMatches(alts, trans, finals, cur, sequence, order) ==
    LET s == UpperStr(sequence)
        r == NfaScan(alts, trans, finals, NfaFindStart(cur), s, order, 0, <<>>)
    IN  [states |-> NfaFindEnd(r.states), matches |-> r.matches]

CAT == <<"C", "A", "T">>

\* The pattern texts drawn, and the examples AT|CAT, A|CAT and AT|AA.
NfaRawPatterns ==
    SeqsUpTo(PatternLetters \cup {"|"}, MaxNfaPatLen)
        \cup {<<"A", "T", "|">> \o CAT, <<"A", "|">> \o CAT,
              <<"A", "T", "|", "A", "A">>}

NfaSequences == SeqsUpTo(PlainSeqSymbols, MaxSeqLen) \cup {CAT}

\* NFA.__init__, called directly or through the factory (via).
NewNFA(via) ==
    /\ kind = "NFA"
    /\ \E raw \in NfaRawPatterns :
          LET alts == ParseAlternatives(raw)
              g == BuildGraph(alts)
          IN  /\ pattern = UpperStr(raw)
              /\ alternatives = alts
              /\ transitions = g.trans
              /\ final_return_edges = g.finals
              /\ next_state_id = g.next_id
    /\ current_states = NfaResetStates
    /\ current_state = 0
    /\ head = <<>> /\ min_gap = 0 /\ max_gap = 0 /\ tail = <<>>
    /\ min_len = 0 /\ stack = <<>> /\ pos = 0 /\ mode = ""
    /\ ret = InitRet(via, FALSE)
    /\ frame = NoFrame

InitNFA == NewNFA(Direct)

NfaReset ==
    /\ kind = "NFA"
    /\ current_states' = NfaResetStates
    /\ ret' = ResetRet
    /\ UNCHANGED <<config, frame, current_state, stack, pos, mode>>

NfaStep ==
    /\ kind = "NFA"
    /\ \E symbol \in StepSymbols :
          LET r == NfaStepResult(transitions, final_return_edges,
                                 current_states, symbol)
          IN  /\ current_states' = r.states
              /\ ret' = StepRet(symbol, r.is_match, FALSE)
    /\ UNCHANGED <<config, frame, current_state, stack, pos, mode>>

NfaFind(Seqs) ==
    /\ kind = "NFA"
    /\ \E s \in FindInputs(Seqs) :
       \E order \in Orders(AltLens(alternatives)) :
          LET r == NfaFindAllMatches(alternatives, transitions,
                                     final_return_edges, current_states, s, order)
          IN  /\ current_states' = r.states
              /\ ret' = FindRet(s, r.matches, FALSE)
    /\ UNCHANGED <<config, frame, current_state, stack, pos, mode>>

NextNFA == NfaReset \/ NfaStep \/ NfaFind(NfaSequences)

SpecNFA == InitNFA /\ [][NextNFA]_vars

(***************************************************************************)
(* EpsilonNFA (enfa_engine.py)                                             *)
(***************************************************************************)

Digits == <<"0", "1", "2", "3", "4", "5", "6", "7", "8", "9">>

IsDigit(c) == \E d \in 1..10 : Digits[d] = c

DigitVal(c) == (CHOOSE d \in 1..10 : Digits[d] = c) - 1

\* The decimal text of a natural number.
RECURSIVE Decimal(_)
Decimal(n) == IF n < 10 THEN <<Digits[n + 1]>>
              ELSE Append(Decimal(n \div 10), Digits[(n % 10) + 1])

RECURSIVE DigitsValue(_, _, _)
DigitsValue(s, i, acc) ==
    IF i > Len(s) THEN acc ELSE DigitsValue(s, i + 1, 10 * acc + DigitVal(s[i]))

\* int(text) for text made of an optional sign and decimal digits; any other
\* text is a ValueError (ok = FALSE).
ParseInt(text) ==
    LET signed == Len(text) > 0 /\ text[1] \in {"-", "+"}
        body == IF signed THEN Tail(text) ELSE text
        ok == Len(body) > 0 /\ \A i \in 1..Len(body) : IsDigit(body[i])
        mag == IF ok THEN DigitsValue(body, 1, 0) ELSE 0
    IN  [ok |-> ok, val |-> IF signed /\ text[1] = "-" THEN 0 - mag ELSE mag]

\* The index (1-based) of the first occurrence of character c in s, or 0.
IndexOf(s, c) ==
    IF \E i \in 1..Len(s) : s[i] = c
    THEN CHOOSE i \in 1..Len(s) : s[i] = c /\ \A j \in 1..(i - 1) : s[j] # c
    ELSE 0

\* Mutant: the bounds are accepted in any order.
ValidRangeAnyOrder(lo, hi) == ~(lo < 0)

\* The check of the bounds in _parse_enfa_pattern.
ValidRange(lo, hi) == ~(lo < 0 \/ hi < lo)

\* _parse_enfa_pattern: [ok, head, min_gap, max_gap, tail]; ok = FALSE when
\* it raises ValueError.
ParseEnfaPattern(spec) ==
    LET s == UpperStr(spec)
        bad == [ok |-> FALSE, head |-> <<>>, min_gap |-> 0, max_gap |-> 0,
                tail |-> <<>>]
        open == IndexOf(s, "{")
        hd == SubSeq(s, 1, open - 1)
        rest == SubSeq(s, open + 1, Len(s))
        close == IndexOf(rest, "}")
        rng == SubSeq(rest, 1, close - 1)
        tl == SubSeq(rest, close + 1, Len(rest))
        comma == IndexOf(rng, ",")
        a == IF comma = 0 THEN ParseInt(rng)
             ELSE ParseInt(SubSeq(rng, 1, comma - 1))
        b == IF comma = 0 THEN a
             ELSE ParseInt(SubSeq(rng, comma + 1, Len(rng)))
    IN  IF open = 0 \/ IndexOf(s, "}") = 0 THEN bad
        ELSE IF close = 0 THEN bad
        ELSE IF ~a.ok \/ ~b.ok THEN bad
        ELSE IF ~ValidRange(a.val, b.val) THEN bad
        ELSE [ok |-> TRUE, head |-> hd, min_gap |-> a.val, max_gap |-> b.val,
              tail |-> tl]

ENFAState(phase, k) == [phase |-> phase, k |-> k]

\* EpsilonNFA.get_states: head 0..|head|, spacer 0..max_gap, tail 0..|tail|
\* (the members of the list).
EnfaGetStates(h, hi, tl) ==
    {ENFAState("head", k) : k \in 0..Len(h)}
        \cup {ENFAState("spacer", g) : g \in 0..hi}
        \cup {ENFAState("tail", k) : k \in 0..Len(tl)}

\* EpsilonNFA.get_initial_states
EnfaGetInitialStates == {ENFAState("head", 0)}

\* EpsilonNFA.get_accept_states
EnfaGetAcceptStates(tl) == {ENFAState("tail", Len(tl))}

\* EpsilonNFA.get_current_states: a copy of the active set.
EnfaGetCurrentStates(cur) == cur

\* The symbol None that labels the epsilon edge in get_transitions.
None == "None"

\* The set get_transitions builds for the key (s, a).
EnfaExported(h, lo, hi, tl, s, a) ==
    (IF s.phase = "head" /\ s.k < Len(h) /\ a = h[s.k + 1]
     THEN {ENFAState("head", s.k + 1)} ELSE {})
    \cup (IF s = ENFAState("head", Len(h)) /\ a = None
          THEN {ENFAState("spacer", 0)} ELSE {})
    \cup (IF s.phase = "spacer" /\ s.k < hi /\ a \in alphabet
          THEN {ENFAState("spacer", s.k + 1)} ELSE {})
    \cup (IF s.phase = "spacer" /\ s.k < hi /\ s.k >= lo /\ Len(tl) > 0
             /\ a = tl[1]
          THEN {ENFAState("tail", 1)} ELSE {})
    \cup (IF s.phase = "tail" /\ s.k < Len(tl) /\ a = tl[s.k + 1]
          THEN {ENFAState("tail", s.k + 1)} ELSE {})

\* EpsilonNFA.get_transitions: (state, symbol or None) -> set of states,
\* with a key for every pair an edge was added for.
EnfaGetTransitions(h, lo, hi, tl) ==
    LET symbols == alphabet \cup {h[i] : i \in DOMAIN h}
                       \cup {tl[i] : i \in DOMAIN tl} \cup {None}
        keys == {k \in EnfaGetStates(h, hi, tl) \X symbols :
                    EnfaExported(h, lo, hi, tl, k[1], k[2]) # {}}
    IN  [k \in keys |-> EnfaExported(h, lo, hi, tl, k[1], k[2])]

\* Mutant: reset leaves the engine past its head, in the spacer.
EnfaResetInSpacer == {ENFAState("spacer", 0)}

\* EpsilonNFA.reset
EnfaResetStates == {ENFAState("head", 0)}

\* Mutant: the closure adds nothing, so the head is not restarted.
EpsilonClosureNoRestart(states) == states

\* EpsilonNFA._epsilon_closure
EpsilonClosure(states) == states \cup {ENFAState("head", 0)}

\* Mutant: the spacer enters the tail without comparing the symbol with
\* tail[0].
EnfaMovesAnyTail(h, lo, hi, tl, st, symbol) ==
    IF st.phase = "head"
    THEN IF st.k < Len(h) /\ h[st.k + 1] = symbol
         THEN IF st.k + 1 = Len(h) THEN {ENFAState("spacer", 0)}
              ELSE {ENFAState("head", st.k + 1)}
         ELSE {}
    ELSE IF st.phase = "spacer"
    THEN (IF st.k < hi THEN {ENFAState("spacer", st.k + 1)} ELSE {})
         \cup (IF st.k >= lo /\ Len(tl) > 0
               THEN {ENFAState("tail", 1)} ELSE {})
    ELSE IF st.phase = "tail"
    THEN IF st.k < Len(tl) /\ tl[st.k + 1] = symbol
         THEN {ENFAState("tail", st.k + 1)}
         ELSE {}
    ELSE {}

\* Mutant: a spacer state that enters the tail does not also stay in the
\* spacer.
EnfaMovesTailOrSpacer(h, lo, hi, tl, st, symbol) ==
    IF st.phase = "head"
    THEN IF st.k < Len(h) /\ h[st.k + 1] = symbol
         THEN IF st.k + 1 = Len(h) THEN {ENFAState("spacer", 0)}
              ELSE {ENFAState("head", st.k + 1)}
         ELSE {}
    ELSE IF st.phase = "spacer"
    THEN IF st.k >= lo /\ Len(tl) > 0 /\ tl[1] = symbol
         THEN {ENFAState("tail", 1)}
         ELSE (IF st.k < hi THEN {ENFAState("spacer", st.k + 1)} ELSE {})
    ELSE IF st.phase = "tail"
    THEN IF st.k < Len(tl) /\ tl[st.k + 1] = symbol
         THEN {ENFAState("tail", st.k + 1)}
         ELSE {}
    ELSE {}

\* The successors of one active state in EpsilonNFA.step.
EnfaMoves(h, lo, hi, tl, st, symbol) ==
    IF st.phase = "head"
    THEN IF st.k < Len(h) /\ h[st.k + 1] = symbol
         THEN IF st.k + 1 = Len(h) THEN {ENFAState("spacer", 0)}
              ELSE {ENFAState("head", st.k + 1)}
         ELSE {}
    ELSE IF st.phase = "spacer"
    THEN (IF st.k < hi THEN {ENFAState("spacer", st.k + 1)} ELSE {})
         \cup (IF st.k >= lo /\ Len(tl) > 0 /\ tl[1] = symbol
               THEN {ENFAState("tail", 1)} ELSE {})
    ELSE IF st.phase = "tail"
    THEN IF st.k < Len(tl) /\ tl[st.k + 1] = symbol
         THEN {ENFAState("tail", st.k + 1)}
         ELSE {}
    ELSE {}

\* EpsilonNFA.step on (head, min_gap, max_gap, tail, active set).
EnfaStepResult(h, lo, hi, tl, cur, symbol) ==
    LET sym == Upper(symbol)
        prev == EpsilonClosure(cur)
        nxt == UNION {EnfaMoves(h, lo, hi, tl, st, sym) : st \in prev}
        now == EpsilonClosure(nxt)
    IN  [states |-> now,
         is_match |-> \E st \in now : st.phase = "tail" /\ st.k = Len(tl)]

\* The is_match values of EpsilonNFA.step called on the symbols of s from
\* number i on (0-based), starting with the active set cur.
RECURSIVE EnfaFeed(_, _, _, _, _, _, _)
EnfaFeed(h, lo, hi, tl, cur, s, i) ==
    IF i >= Len(s) THEN <<>>
    ELSE LET r == EnfaStepResult(h, lo, hi, tl, cur, s[i + 1])
         IN  <<r.is_match>> \o EnfaFeed(h, lo, hi, tl, r.states, s, i + 1)

\* The loop "for st in prev" of EpsilonNFA.step with prev visited in the
\* order given, from position j on; acc holds next_states.
RECURSIVE EnfaStepLoop(_, _, _, _, _, _, _, _)
EnfaStepLoop(h, lo, hi, tl, sym, order, j, acc) ==
    IF j > Len(order) THEN acc
    ELSE EnfaStepLoop(h, lo, hi, tl, sym, order, j + 1,
                      acc \cup EnfaMoves(h, lo, hi, tl, order[j], sym))

\* EpsilonNFA.step when the set prev is iterated in the order given.
EnfaStepInOrder(h, lo, hi, tl, cur, symbol, order) ==
    LET nxt == EnfaStepLoop(h, lo, hi, tl, Upper(symbol), order, 1, {})
        now == EpsilonClosure(nxt)
    IN  [states |-> now,
         is_match |-> \E st \in now : st.phase = "tail" /\ st.k = Len(tl)]

\* The inner loop of EpsilonNFA.find_all_matches: the gaps g from min_gap on
\* for the head occurrence at i.
RECURSIVE EnfaGaps(_, _, _, _, _, _, _)
EnfaGaps(s, Lh, Lt, tl, hi, i, g) ==
    IF g > hi THEN <<>>
    ELSE LET j == i + Lh + g
             rest == EnfaGaps(s, Lh, Lt, tl, hi, i, g + 1)
         IN  IF j + Lt <= Len(s) /\ Slice(s, j, j + Lt) = tl
             THEN <<(<<i, j + Lt - 1>>)>> \o rest
             ELSE rest

\* Mutant: the gap loop starts at 0 instead of min_gap.
EnfaFirstGapZero(lo) == 0

\* The first gap length EpsilonNFA.find_all_matches tries.
EnfaFirstGap(lo) == lo

\* The outer loop of EpsilonNFA.find_all_matches from index i.
RECURSIVE EnfaScan(_, _, _, _, _, _)
EnfaScan(s, h, lo, hi, tl, i) ==
    IF i > Len(s) - Len(h) THEN <<>>
    ELSE (IF Slice(s, i, i + Len(h)) = h
          THEN EnfaGaps(s, Len(h), Len(tl), tl, hi, i, EnfaFirstGap(lo))
          ELSE <<>>)
         \o EnfaScan(s, h, lo, hi, tl, i + 1)

\* Mutant: the search resets the engine, as the DFA's and the NFA's do.
EnfaFindResets(cur) == EnfaResetStates

\* The active set EpsilonNFA.find_all_matches leaves: it does not touch it.
EnfaFindKeeps(cur) == cur

\* Mutant: the search runs the exact-match engine's linear chain over
\* head+tail, which starts over after every occurrence.
EnfaFindByLinearChain(h, lo, hi, tl, sequence) ==
    DfaFindAllMatches(h \o tl, BuildLinearChain(h \o tl), 0,
                      UpperStr(sequence)).matches

\* EpsilonNFA.find_all_matches
EnfaFindAllMatches(h, lo, hi, tl, sequence) ==
    EnfaScan(UpperStr(sequence), h, lo, hi, tl, 0)

\* The pattern texts drawn: HEAD{lo,hi}TAIL and HEAD{n}TAIL, bounds in either
\* order, and the example TATA{1,3}TATA.
EnfaWords == SeqsUpTo(PatternLetters, MaxMotifLen)

TATA == <<"T", "A", "T", "A">>

EnfaRawPatterns ==
    {h \o <<"{">> \o Decimal(a) \o <<",">> \o Decimal(b) \o <<"}">> \o t :
        h \in EnfaWords, t \in EnfaWords, a \in 0..MaxGap, b \in 0..MaxGap}
    \cup {h \o <<"{">> \o Decimal(a) \o <<"}">> \o t :
        h \in EnfaWords, t \in EnfaWords, a \in 0..MaxGap}
    \cup {TATA \o <<"{", "1", ",", "3", "}">> \o TATA}

EnfaSequences ==
    SeqsUpTo(PlainSeqSymbols, MaxSeqLen)
    \cup {TATA \o <<"A">> \o TATA, TATA \o TATA}

\* A constructor that raised returns no engine: no call can follow.
Constructed == ~(ret.op = "init" /\ ret.raised)

\* EpsilonNFA.__init__ on a pattern text of Raws, called directly or through
\* the factory (via); a parse failure propagates and no engine is returned.
NewENFA(via, Raws) ==
    /\ kind = "Epsilon-NFA"
    /\ \E raw \in Raws :
          LET r == ParseEnfaPattern(raw)
          IN  /\ pattern = UpperStr(raw)
              /\ head = r.head /\ min_gap = r.min_gap /\ max_gap = r.max_gap
              /\ tail = r.tail
              /\ current_states = IF r.ok THEN EnfaResetStates ELSE {}
              /\ ret = InitRet(via, ~r.ok)
              /\ frame = NoFrame
    /\ transitions = <<>> /\ current_state = 0
    /\ alternatives = <<>> /\ final_return_edges = {} /\ next_state_id = 0
    /\ min_len = 0 /\ stack = <<>> /\ pos = 0 /\ mode = ""

InitENFA == NewENFA(Direct, EnfaRawPatterns)

EnfaReset ==
    /\ kind = "Epsilon-NFA" /\ Constructed
    /\ current_states' = EnfaResetStates
    /\ ret' = ResetRet
    /\ UNCHANGED <<config, frame, current_state, stack, pos, mode>>

EnfaStep ==
    /\ kind = "Epsilon-NFA" /\ Constructed
    /\ \E symbol \in StepSymbols :
          LET r == EnfaStepResult(head, min_gap, max_gap, tail,
                                  current_states, symbol)
          IN  /\ current_states' = r.states
              /\ ret' = StepRet(symbol, r.is_match, FALSE)
    /\ UNCHANGED <<config, frame, current_state, stack, pos, mode>>

EnfaFind(Seqs) ==
    /\ kind = "Epsilon-NFA" /\ Constructed
    /\ \E s \in FindInputs(Seqs) :
          /\ current_states' = EnfaFindKeeps(current_states)
          /\ ret' = FindRet(s, EnfaFindAllMatches(head, min_gap, max_gap, tail, s),
                            FALSE)
    /\ UNCHANGED <<config, frame, current_state, stack, pos, mode>>

\* The engine driven step by step, with searches of short sequences.
NextENFA == EnfaReset \/ EnfaStep \/ EnfaFind(ShortSequences)

SpecENFA == InitENFA /\ [][NextENFA]_vars

\* The batch search alone, on a freshly constructed engine.
NextEnfaFind == EnfaFind(EnfaSequences)

\* Arbitrary pattern texts: bases, a letter outside the alphabet, braces,
\* comma, digits and a sign.
ParseSymbols == {"A", "N", "{", "}", ",", "0", "1", "-"}

EnfaParseTexts == SeqsUpTo(ParseSymbols, MaxParseLen)

\* The constructor on arbitrary texts, and the engines it returns.
InitEnfaParse == NewENFA(Direct, EnfaParseTexts)

SpecEnfaParse == InitEnfaParse /\ [][NextENFA]_vars

SpecEnfaFind == InitENFA /\ [][NextEnfaFind]_vars

(***************************************************************************)
(* PDA (pda_engine.py)                                                     *)
(***************************************************************************)

\* The stack length above which PDA.step shifts the oldest symbol out.
StackCap == 8

\* The default of PDA.__init__'s min_len.
DefaultMinLen == 4

\* _comp
Comp(base) ==
    CASE base = "A" -> "T"
      [] base = "T" -> "A"
      [] base = "G" -> "C"
      [] base = "C" -> "G"
      [] OTHER -> "?"

\* max(2, int(min_len)) of PDA.__init__
EffectiveMinLen(m) == IF m > 2 THEN m ELSE 2

\* Mutant: a step that shifts the stack reports a match.
PdaStepResultMatchOnShift(stk, p, symbol) ==
    LET pushed == Append(stk, Upper(symbol))
    IN  IF Len(pushed) > StackCap
        THEN [stack |-> Tail(pushed), pos |-> p + 1, mode |-> "pop",
              is_match |-> TRUE]
        ELSE [stack |-> pushed, pos |-> p + 1, mode |-> "push",
              is_match |-> FALSE]

\* Mutant: a full stack discards the symbol just pushed and keeps the
\* oldest.
PdaStepResultDropsNewest(stk, p, symbol) ==
    LET pushed == Append(stk, Upper(symbol))
    IN  IF Len(pushed) > StackCap
        THEN [stack |-> SubSeq(pushed, 1, StackCap), pos |-> p + 1,
              mode |-> "pop", is_match |-> FALSE]
        ELSE [stack |-> pushed, pos |-> p + 1, mode |-> "push",
              is_match |-> FALSE]

\* PDA.step on (stack, pos): the new stack, position and mode, and the
\* is_match it returns.
PdaStepResult(stk, p, symbol) ==
    LET pushed == Append(stk, Upper(symbol))
    IN  IF Len(pushed) > StackCap
        THEN [stack |-> Tail(pushed), pos |-> p + 1, mode |-> "pop",
              is_match |-> FALSE]
        ELSE [stack |-> pushed, pos |-> p + 1, mode |-> "push",
              is_match |-> FALSE]

\* The stack, position and mode after PDA.step was called on the symbols of
\* w from number i on (0-based), starting with the stack stk at position p
\* in mode md.
RECURSIVE PdaFeed(_, _, _, _, _)
PdaFeed(stk, p, md, w, i) ==
    IF i >= Len(w) THEN [stack |-> stk, pos |-> p, mode |-> md]
    ELSE LET r == PdaStepResult(stk, p, w[i + 1])
         IN  PdaFeed(r.stack, r.pos, r.mode, w, i + 1)

\* The while loop of expand(l, r) in PDA.find_all_matches: the (l, r) it
\* stops at.
RECURSIVE ExpandLoop(_, _, _)
ExpandLoop(s, l, r) ==
    IF l >= 0 /\ r < Len(s) /\ Comp(s[l + 1]) = s[r + 1]
    THEN ExpandLoop(s, l - 1, r + 1)
    ELSE <<l, r>>

\* Mutant: the span is taken as (l, r), one past the last valid pair.
ExpandOffByOne(s, m, l, r) ==
    LET e == ExpandLoop(s, l, r)
    IN  IF e[2] - e[1] + 1 >= m THEN {<<e[1], e[2]>>} ELSE {}

\* expand(l, r): the matches it appends.
Expand(s, m, l, r) ==
    LET e == ExpandLoop(s, l, r)
        L == e[1] + 1
        R == e[2] - 1
    IN  IF R - L + 1 >= m THEN {<<L, R>>} ELSE {}

\* Tuple order of Python on pairs of integers.
PairLess(x, y) == x[1] < y[1] \/ (x[1] = y[1] /\ x[2] < y[2])

\* sorted(set(matches))
RECURSIVE SortedSet(_)
SortedSet(S) ==
    IF S = {} THEN <<>>
    ELSE LET least == CHOOSE x \in S : \A y \in S \ {x} : PairLess(x, y)
         IN  <<least>> \o SortedSet(S \ {least})

\* The centers (i, i+1) PDA.find_all_matches expands around.
PdaCenters(n) == 0..(n - 2)

\* PDA.find_all_matches
PdaFindAllMatches(m, sequence) ==
    LET s == UpperStr(sequence)
    IN  SortedSet(UNION {Expand(s, m, i, i + 1) : i \in PdaCenters(Len(s))})

\* The stack, position and mode PDA.find_all_matches leaves: untouched.
PdaFindKeeps(stk, p, md) == [stack |-> stk, pos |-> p, mode |-> md]

PALINDROME == <<"P", "A", "L", "I", "N", "D", "R", "O", "M", "E">>

PdaPatterns == {PALINDROME, <<"a", "t">>}

PdaSeqSymbols == alphabet \cup {"N", "?"}

PdaSequences == SeqsUpTo(PdaSeqSymbols, MaxSeqLen)

\* The symbols stepped through a PDA (upper-cased by step).
PdaStepSymbols == {"a", "N"}

\* PDA.__init__ on a pattern of Pats and a min_len of MinLens, called
\* directly or through the factory (via).
NewPDA(via, Pats, MinLens) ==
    /\ kind = "PDA"
    /\ pattern \in {UpperStr(p) : p \in Pats}
    /\ min_len \in {EffectiveMinLen(m) : m \in MinLens}
    /\ stack = <<>> /\ pos = 0 /\ mode = "push"
    /\ transitions = <<>> /\ current_state = 0 /\ current_states = {}
    /\ alternatives = <<>> /\ final_return_edges = {} /\ next_state_id = 0
    /\ head = <<>> /\ min_gap = 0 /\ max_gap = 0 /\ tail = <<>>
    /\ ret = InitRet(via, FALSE)
    /\ frame = NoFrame

InitPDA == NewPDA(Direct, PdaPatterns, 0..MaxMinLen)

PdaReset ==
    /\ kind = "PDA"
    /\ stack' = <<>> /\ pos' = 0 /\ mode' = "push"
    /\ ret' = ResetRet
    /\ UNCHANGED <<config, frame, current_state, current_states>>

PdaStep ==
    /\ kind = "PDA"
    /\ pos < MaxPos
    /\ \E symbol \in PdaStepSymbols :
          LET r == PdaStepResult(stack, pos, symbol)
          IN  /\ stack' = r.stack /\ pos' = r.pos /\ mode' = r.mode
              /\ ret' = [StepRet(symbol, r.is_match, FALSE) EXCEPT !.label = r.mode]
    /\ UNCHANGED <<config, frame, current_state, current_states>>

PdaFind(Seqs) ==
    /\ kind = "PDA"
    /\ \E s \in FindInputs(Seqs) :
          LET k == PdaFindKeeps(stack, pos, mode)
          IN  /\ stack' = k.stack /\ pos' = k.pos /\ mode' = k.mode
              /\ ret' = FindRet(s, PdaFindAllMatches(min_len, s), FALSE)
    /\ UNCHANGED <<config, frame, current_state, current_states>>

\* The engine a method of PDA is called on: self.
PdaSelf == [pattern |-> pattern, min_len |-> min_len, stack |-> stack,
            pos |-> pos, mode |-> mode]

\* PDA.reset on self: the engine it leaves and what it returns.
PdaMethodReset(self) ==
    [self |-> [self EXCEPT !.stack = <<>>, !.pos = 0, !.mode = "push"],
     out |-> <<>>]

\* PDA.step on self.
PdaMethodStep(self, symbol) ==
    LET r == PdaStepResult(self.stack, self.pos, symbol)
    IN  [self |-> [self EXCEPT !.stack = r.stack, !.pos = r.pos,
                               !.mode = r.mode],
         out |-> <<r.mode, r.is_match>>]

\* Mutant: only an engine whose pattern is PALINDROME detects anything.
PdaMethodFindIfNamed(self, sequence) ==
    LET k == PdaFindKeeps(self.stack, self.pos, self.mode)
    IN  [self |-> [self EXCEPT !.stack = k.stack, !.pos = k.pos,
                               !.mode = k.mode],
         out |-> IF self.pattern = PALINDROME
                 THEN PdaFindAllMatches(self.min_len, sequence) ELSE <<>>]

\* PDA.find_all_matches on self.
PdaMethodFind(self, sequence) ==
    LET k == PdaFindKeeps(self.stack, self.pos, self.mode)
    IN  [self |-> [self EXCEPT !.stack = k.stack, !.pos = k.pos,
                               !.mode = k.mode],
         out |-> PdaFindAllMatches(self.min_len, sequence)]

\* The calls made on a PDA: reset(), step(symbol), find_all_matches(seq).
PdaCalls ==
    {[op |-> "reset", arg |-> <<>>]}
    \cup {[op |-> "step", arg |-> sym] : sym \in PdaStepSymbols}
    \cup {[op |-> "find", arg |-> s] :
             s \in ShortSequences \cup {<<"A", "A", "T", "T">>}}

PdaCall(self, c) ==
    CASE c.op = "reset" -> PdaMethodReset(self)
      [] c.op = "step" -> PdaMethodStep(self, c.arg)
      [] c.op = "find" -> PdaMethodFind(self, c.arg)

\* The engine driven step by step, with searches of short sequences.
NextPDA == PdaReset \/ PdaStep \/ PdaFind(ShortSequences)

SpecPDA == InitPDA /\ [][NextPDA]_vars

\* The batch search alone, on a freshly constructed engine.
NextPdaFind == PdaFind(PdaSequences)

SpecPdaFind == InitPDA /\ [][NextPdaFind]_vars

(***************************************************************************)
(* Any of the four engines (automata_factory.py).                          *)
(***************************************************************************)
\* class AutomataType
AutomataType == [DFA |-> "DFA", NFA |-> "NFA", ENFA |-> "Epsilon-NFA",
                 PDA |-> "PDA"]

\* The tags create_automaton is called with: the four of AutomataType and
\* three others.
Tags == {AutomataType.DFA, AutomataType.NFA, AutomataType.ENFA,
         AutomataType.PDA, "dfa", "", "REGEX"}

\* What is left of a call of create_automaton that raised ValueError for the
\* tag: no engine.
NoEngine == "none"

Unsupported(tag) ==
    /\ kind = NoEngine
    /\ pattern = <<>> /\ transitions = <<>> /\ current_state = 0
    /\ alternatives = <<>> /\ final_return_edges = {} /\ next_state_id = 0
    /\ current_states = {}
    /\ head = <<>> /\ min_gap = 0 /\ max_gap = 0 /\ tail = <<>>
    /\ min_len = 0 /\ stack = <<>> /\ pos = 0 /\ mode = ""
    /\ ret = InitRet(tag, TRUE)
    /\ frame = NoFrame

\* pattern or "PALINDROME"
PatternOr(p, default) == IF p = <<>> THEN default ELSE p

\* The patterns the factory hands to PDA.
FactoryPdaPatterns == {PatternOr(p, PALINDROME) : p \in PdaPatterns \cup {<<>>}}

\* Mutant: a tag the factory does not know gives a DFA.
CreateAutomatonDefaultDfa(tag) ==
    IF tag = AutomataType.NFA THEN NewNFA(tag)
    ELSE IF tag = AutomataType.ENFA THEN NewENFA(tag, EnfaRawPatterns)
    ELSE IF tag = AutomataType.PDA
    THEN NewPDA(tag, FactoryPdaPatterns, {DefaultMinLen})
    ELSE NewDFA(tag)

\* create_automaton(automata_type, pattern)
CreateAutomaton(tag) ==
    IF tag = AutomataType.DFA THEN NewDFA(tag)
    ELSE IF tag = AutomataType.NFA THEN NewNFA(tag)
    ELSE IF tag = AutomataType.ENFA THEN NewENFA(tag, EnfaRawPatterns)
    ELSE IF tag = AutomataType.PDA
    THEN NewPDA(tag, FactoryPdaPatterns, {DefaultMinLen})
    ELSE Unsupported(tag)

\* An engine constructed directly from its class, or by the factory.
Init ==
    \/ InitDFA \/ InitNFA \/ InitENFA \/ InitPDA
    \/ \E tag \in Tags : CreateAutomaton(tag)

Next ==
    \/ DfaReset \/ DfaStep \/ DfaFind(ShortSequences)
    \/ NfaReset \/ NfaStep \/ NfaFind(ShortSequences)
    \/ EnfaReset \/ EnfaStep \/ EnfaFind(ShortSequences)
    \/ PdaReset \/ PdaStep \/ PdaFind(ShortSequences)

Spec == Init /\ [][Next]_vars

\* The two engines that iterate over sets: the NFA with its searches, the
\* EpsilonNFA stepped and reset.
InitIterating == InitNFA \/ InitENFA

NextIterating == NextNFA \/ EnfaReset \/ EnfaStep

SpecIterating == InitIterating /\ [][NextIterating]_vars

\* The two engines whose search resets them, with the full searches.
InitResetting == InitDFA \/ InitNFA

NextResetting == NextDFA \/ NextNFA

SpecResetting == InitResetting /\ [][NextResetting]_vars

(***************************************************************************)
(* find_all_matches, one loop iteration at a time                          *)
(***************************************************************************)

\* The sequences searched one loop iteration at a time.
MaxRunLen == 4

RunSequences == SeqsUpTo(PatternLetters, MaxRunLen)

\* The sequences the PDA searches so, a symbol outside {A,T,G,C} included.
PdaRunSequences == SeqsUpTo(PatternLetters \cup {"N"}, MaxRunLen)

\* The sequences handed to a search that is followed iteration by iteration:
\* any of Seqs on an engine that has not searched yet (a search leaves the
\* engine as it found it, or reset, so a later search runs the same way).
RunInputs(Seqs) == IF ret.op = "find" THEN {} ELSE Seqs

\* The call of find_all_matches(sequence): the locals as the first loop
\* finds them (the DFA iterates the sequence as passed, the others s =
\* sequence.upper()).
EnterFrame(sequence, s) ==
    [NoFrame EXCEPT !.pc = "for", !.sequence = sequence, !.s = s]

\* The condition of the while loop of expand(l, r).
ExpandCondition(s, l, r) ==
    l >= 0 /\ r < Len(s) /\ Comp(s[l + 1]) = s[r + 1]

\* Mutant: the body of the while loop leaves l and r where they are.
ExpandBodyStalls(l, r) == <<l, r>>

\* The body of the while loop of expand(l, r): l -= 1; r += 1.
ExpandBody(l, r) == <<l - 1, r + 1>>

\* PDA.find_all_matches is called.
PdaFindEnter ==
    /\ kind = "PDA" /\ frame.pc = "idle"
    /\ \E sequence \in RunInputs(PdaRunSequences) :
          frame' = EnterFrame(sequence, UpperStr(sequence))
    /\ UNCHANGED <<config, current_state, current_states, stack, pos, mode, ret>>

\* for i in range(n - 1): expand(i, i + 1) is entered, or the loop ends.
PdaFindFor ==
    /\ kind = "PDA" /\ frame.pc = "for"
    /\ frame' = IF frame.i < Len(frame.s) - 1
                THEN [frame EXCEPT !.pc = "while", !.l = frame.i,
                                   !.r = frame.i + 1]
                ELSE [frame EXCEPT !.pc = "return"]
    /\ UNCHANGED <<config, current_state, current_states, stack, pos, mode, ret>>

\* One iteration of the while loop of expand.
PdaExpandExtend ==
    /\ kind = "PDA" /\ frame.pc = "while"
    /\ ExpandCondition(frame.s, frame.l, frame.r)
    /\ frame' = [frame EXCEPT !.l = ExpandBody(frame.l, frame.r)[1],
                              !.r = ExpandBody(frame.l, frame.r)[2]]
    /\ UNCHANGED <<config, current_state, current_states, stack, pos, mode, ret>>

\* The while loop of expand ends: the span is appended when it is long
\* enough, and the for loop goes on.
PdaExpandExit ==
    /\ kind = "PDA" /\ frame.pc = "while"
    /\ ~ExpandCondition(frame.s, frame.l, frame.r)
    /\ LET L == frame.l + 1
           R == frame.r - 1
       IN  frame' = [frame EXCEPT
                        !.pc = "for", !.i = frame.i + 1,
                        !.matches = IF R - L + 1 >= min_len
                                    THEN Append(frame.matches, <<L, R>>)
                                    ELSE frame.matches]
    /\ UNCHANGED <<config, current_state, current_states, stack, pos, mode, ret>>

\* matches = sorted(set(matches)); return matches
PdaFindReturn ==
    /\ kind = "PDA" /\ frame.pc = "return"
    /\ ret' = FindRet(frame.sequence,
                      SortedSet({frame.matches[j] : j \in DOMAIN frame.matches}),
                      FALSE)
    /\ frame' = NoFrame
    /\ UNCHANGED <<config, current_state, current_states, stack, pos, mode>>

\* EpsilonNFA.find_all_matches is called.
EnfaFindEnter ==
    /\ kind = "Epsilon-NFA" /\ Constructed /\ frame.pc = "idle"
    /\ \E sequence \in RunInputs(RunSequences) :
          frame' = EnterFrame(sequence, UpperStr(sequence))
    /\ UNCHANGED <<config, current_state, current_states, stack, pos, mode, ret>>

\* for i in range(0, n - Lh + 1): the head is compared at i, and the loop
\* continues, enters the loop over g, or ends.
EnfaFindFor ==
    /\ kind = "Epsilon-NFA" /\ frame.pc = "for"
    /\ frame' = IF frame.i < Len(frame.s) - Len(head) + 1
                THEN IF Slice(frame.s, frame.i, frame.i + Len(head)) # head
                     THEN [frame EXCEPT !.i = frame.i + 1]
                     ELSE [frame EXCEPT !.pc = "gaps",
                                        !.g = EnfaFirstGap(min_gap)]
                ELSE [frame EXCEPT !.pc = "return"]
    /\ UNCHANGED <<config, current_state, current_states, stack, pos, mode, ret>>

\* for g in range(self.min_gap, self.max_gap + 1): one iteration, or the
\* end of the loop and the next i.
EnfaFindGap ==
    /\ kind = "Epsilon-NFA" /\ frame.pc = "gaps"
    /\ LET j == frame.i + Len(head) + frame.g
       IN  frame' = IF frame.g < max_gap + 1
                    THEN [frame EXCEPT
                             !.g = frame.g + 1,
                             !.matches =
                                 IF j + Len(tail) <= Len(frame.s)
                                    /\ Slice(frame.s, j, j + Len(tail)) = tail
                                 THEN Append(frame.matches,
                                             <<frame.i, j + Len(tail) - 1>>)
                                 ELSE frame.matches]
                    ELSE [frame EXCEPT !.pc = "for", !.i = frame.i + 1]
    /\ UNCHANGED <<config, current_state, current_states, stack, pos, mode, ret>>

\* return matches
EnfaFindReturn ==
    /\ kind = "Epsilon-NFA" /\ frame.pc = "return"
    /\ ret' = FindRet(frame.sequence, frame.matches, FALSE)
    /\ frame' = NoFrame
    /\ UNCHANGED <<config, current_state, current_states, stack, pos, mode>>

\* DFA.find_all_matches is called: matches = []; self.reset().
DfaFindEnter ==
    /\ kind = "DFA" /\ frame.pc = "idle"
    /\ \E sequence \in RunInputs(RunSequences) :
          frame' = EnterFrame(sequence, sequence)
    /\ current_state' = DfaFindStart(current_state)
    /\ UNCHANGED <<config, current_states, stack, pos, mode, ret>>

\* for i, base in enumerate(dna_sequence): one step, or the end of the loop.
DfaFindFor ==
    /\ kind = "DFA" /\ frame.pc = "for"
    /\ IF frame.i < Len(frame.s)
       THEN LET r == DfaStepResult(pattern, transitions, current_state,
                                   frame.s[frame.i + 1])
            IN  /\ current_state' = r.state
                /\ frame' = [frame EXCEPT
                                !.i = frame.i + 1,
                                !.matches =
                                    IF r.is_match
                                    THEN Append(frame.matches,
                                                <<frame.i - Len(pattern) + 1,
                                                  frame.i>>)
                                    ELSE frame.matches]
       ELSE /\ frame' = [frame EXCEPT !.pc = "return"]
            /\ UNCHANGED current_state
    /\ UNCHANGED <<config, current_states, stack, pos, mode, ret>>

\* self.reset(); return matches
DfaFindReturn ==
    /\ kind = "DFA" /\ frame.pc = "return"
    /\ current_state' = DfaResetState
    /\ ret' = FindRet(frame.sequence, frame.matches, FALSE)
    /\ frame' = NoFrame
    /\ UNCHANGED <<config, current_states, stack, pos, mode>>

\* NFA.find_all_matches is called: s = sequence.upper(); self.reset().
NfaFindEnter ==
    /\ kind = "NFA" /\ frame.pc = "idle"
    /\ \E sequence \in RunInputs(RunSequences) :
          frame' = EnterFrame(sequence, UpperStr(sequence))
    /\ current_states' = NfaFindStart(current_states)
    /\ UNCHANGED <<config, current_state, stack, pos, mode, ret>>

\* for i, ch in enumerate(s): one step and the loop over alt_lens, or the
\* end of the loop.
NfaFindFor ==
    /\ kind = "NFA" /\ frame.pc = "for"
    /\ IF frame.i < Len(frame.s)
       THEN \E order \in Orders(AltLens(alternatives)) :
               LET r == NfaStepResult(transitions, final_return_edges,
                                      current_states, frame.s[frame.i + 1])
                   L == LongestAt(alternatives, frame.s, frame.i, order, 1, 0)
               IN  /\ current_states' = r.states
                   /\ frame' = [frame EXCEPT
                                   !.i = frame.i + 1,
                                   !.matches =
                                       IF r.is_match /\ L # 0
                                       THEN Append(frame.matches,
                                                   <<frame.i - L + 1, frame.i>>)
                                       ELSE frame.matches]
       ELSE /\ frame' = [frame EXCEPT !.pc = "return"]
            /\ UNCHANGED current_states
    /\ UNCHANGED <<config, current_state, stack, pos, mode, ret>>

\* self.reset(); return matches
NfaFindReturn ==
    /\ kind = "NFA" /\ frame.pc = "return"
    /\ current_states' = NfaFindEnd(current_states)
    /\ ret' = FindRet(frame.sequence, frame.matches, FALSE)
    /\ frame' = NoFrame
    /\ UNCHANGED <<config, current_state, stack, pos, mode>>

\* The four engines, each searching a sequence one loop iteration at a
\* time; a call that has begun runs on (the program is single-threaded and
\* synchronous), so the next iteration is taken whenever there is one.
InitSearching == InitDFA \/ InitNFA \/ InitENFA \/ InitPDA

NextSearching ==
    \/ PdaFindEnter \/ PdaFindFor \/ PdaExpandExtend \/ PdaExpandExit
    \/ PdaFindReturn
    \/ EnfaFindEnter \/ EnfaFindFor \/ EnfaFindGap \/ EnfaFindReturn
    \/ DfaFindEnter \/ DfaFindFor \/ DfaFindReturn
    \/ NfaFindEnter \/ NfaFindFor \/ NfaFindReturn

SpecSearching == InitSearching /\ [][NextSearching]_vars /\ WF_vars(NextSearching)

(***************************************************************************)
(* Properties.                                                             *)
(***************************************************************************)

OverAlphabet(s) == \A i \in 1..Len(s) : s[i] \in alphabet

\* A step on a symbol whose upper-cased form is outside {A,T,G,C}.
OutOfAlphabet(sym) == Upper(sym) \notin alphabet

\* The word w occupies s[e-|w|+1 .. e] (0-based, inclusive).
EndsAt(w, s, e) ==
    /\ Len(w) <= e + 1
    /\ e + 1 <= Len(s)
    /\ SubSeq(s, e + 2 - Len(w), e + 1) = w

Elements(list) == {list[j] : j \in DOMAIN list}

Maximum(S) == CHOOSE x \in S : \A y \in S : y <= x

\* C1: for a non-empty literal pattern P and a sequence S over {A,T,G,C},
\* DFA.find_all_matches(S) returns exactly the intervals [e-|P|+1, e] of all
\* end positions e at which P occurs in S, overlapping occurrences included.
C1_ExactMatchFindsEveryOccurrence ==
    (kind = "DFA" /\ ret.op = "find" /\ pattern # <<>> /\ OverAlphabet(ret.seq))
    => Elements(ret.matches) =
          {<<e - Len(pattern) + 1, e>> :
              e \in {x \in 0..(Len(ret.seq) - 1) : EndsAt(pattern, ret.seq, x)}}

\* The alternatives are non-empty and pairwise different.
DistinctNonEmpty(alts) ==
    /\ \A j \in DOMAIN alts : alts[j] # <<>>
    /\ \A j, k \in DOMAIN alts : alts[j] = alts[k] => j = k

\* The lengths of the alternatives that occupy the end of s[0..e].
LengthsEndingAt(alts, s, e) ==
    {Len(alts[j]) : j \in {k \in DOMAIN alts : EndsAt(alts[k], s, e)}}

\* C2: for distinct non-empty alternatives and a sequence S over {A,T,G,C},
\* NFA.find_all_matches(S) holds an interval ending at e exactly when some
\* alternative is a suffix of S[0..e], exactly one such interval per e, and it
\* is [e-L+1, e] for the longest such alternative's length L; AT|CAT on
\* "CAT" reports only [0,2].
C2_AlternativesLongestPerEnd ==
    (kind = "NFA" /\ ret.op = "find" /\ DistinctNonEmpty(alternatives)
        /\ OverAlphabet(ret.seq))
    => LET s == ret.seq
           ms == ret.matches
       IN  /\ \A j \in DOMAIN ms : ms[j][2] \in 0..(Len(s) - 1)
           /\ \A e \in 0..(Len(s) - 1) :
                 LET Ls == LengthsEndingAt(alternatives, s, e)
                     hits == {j \in DOMAIN ms : ms[j][2] = e}
                 IN  IF Ls = {} THEN hits = {}
                     ELSE /\ Cardinality(hits) = 1
                          /\ \A j \in hits : ms[j] = <<e - Maximum(Ls) + 1, e>>
           /\ (alternatives = <<(<<"A", "T">>), CAT>> /\ s = CAT)
                 => ms = <<(<<0, 2>>)>>

\* C2, its case: two alternatives end at the same position and the longer
\* one is reported.
C2_Witness ==
    /\ kind = "NFA" /\ ret.op = "find"
    /\ alternatives = <<(<<"A", "T">>), CAT>>
    /\ ret.seq = CAT
    /\ ret.matches = <<(<<0, 2>>)>>

\* The (i, g) for which head is at i, min_gap <= g <= max_gap and tail is at
\* i+|head|+g, inside s.
SpacerHits(h, lo, hi, tl, s) ==
    {ig \in (0..Len(s)) \X (lo..hi) :
        /\ ig[1] + Len(h) <= Len(s)
        /\ SubSeq(s, ig[1] + 1, ig[1] + Len(h)) = h
        /\ ig[1] + Len(h) + ig[2] + Len(tl) <= Len(s)
        /\ SubSeq(s, ig[1] + Len(h) + ig[2] + 1,
                  ig[1] + Len(h) + ig[2] + Len(tl)) = tl}

\* C3: EpsilonNFA.find_all_matches(S) returns exactly one interval
\* [i, i+|head|+g+|tail|-1] per pair (i, g) with head at i, g within the
\* bounds and tail at i+|head|+g, and nothing else; TATA{1,3}TATA gives
\* exactly [0,8] on "TATAATATA" and nothing on "TATATATA".
C3_SpacerBatchExact ==
    (kind = "Epsilon-NFA" /\ ret.op = "find")
    => LET hits == SpacerHits(head, min_gap, max_gap, tail, ret.seq)
       IN  /\ Elements(ret.matches) =
                {<<ig[1], ig[1] + Len(head) + ig[2] + Len(tail) - 1>> : ig \in hits}
           /\ Len(ret.matches) = Cardinality(hits)
           /\ (head = TATA /\ tail = TATA /\ min_gap = 1 /\ max_gap = 3)
                 => /\ ret.seq = TATA \o <<"A">> \o TATA
                          => ret.matches = <<(<<0, 8>>)>>
                    /\ ret.seq = TATA \o TATA => ret.matches = <<>>

\* C3, its case: one head occurrence matched with two gap lengths.
C3_Witness ==
    /\ kind = "Epsilon-NFA" /\ ret.op = "find"
    /\ min_gap > 0
    /\ \E j, k \in DOMAIN ret.matches :
          ret.matches[j][1] = ret.matches[k][1]
          /\ ret.matches[j][2] < ret.matches[k][2]

\* The k innermost pairs around the center (i, i+1) are complementary.
PairsOk(s, i, k) ==
    \A j \in 0..(k - 1) :
        /\ i - j >= 0
        /\ i + 1 + j < Len(s)
        /\ Comp(s[i - j + 1]) = s[i + 1 + j + 1]

\* The maximal complementary spans of length >= m around the centers of s.
MaximalSpans(s, m) ==
    {<<ik[1] - ik[2] + 1, ik[1] + ik[2]>> :
        ik \in {x \in (0..(Len(s) - 2)) \X (1..Len(s)) :
                  /\ PairsOk(s, x[1], x[2])
                  /\ ~PairsOk(s, x[1], x[2] + 1)
                  /\ 2 * x[2] >= m}}

\* C4: for S over {A,T,G,C} and m = max(2, min_len), PDA.find_all_matches(S)
\* returns exactly the maximal complementary spans of length >= m around the
\* centers (i, i+1); each has even length, and the list is strictly
\* ascending; "AATT" gives [[0,3]] and "AAAA" nothing at m = 4.
C4_PalindromeBatchExact ==
    (kind = "PDA" /\ ret.op = "find" /\ OverAlphabet(ret.seq))
    => LET ms == ret.matches
       IN  /\ min_len >= 2
           /\ Elements(ms) = MaximalSpans(ret.seq, min_len)
           /\ \A j \in DOMAIN ms : (ms[j][2] - ms[j][1] + 1) % 2 = 0
           /\ \A j \in 1..(Len(ms) - 1) : PairLess(ms[j], ms[j + 1])
           /\ (min_len = DefaultMinLen /\ ret.seq = <<"A", "A", "T", "T">>)
                 => ms = <<(<<0, 3>>)>>
           /\ (min_len = DefaultMinLen /\ ret.seq = <<"A", "A", "A", "A">>)
                 => ms = <<>>

\* C4, its case: a nested span is reported and the inner centers' shorter
\* spans are not.
C4_Witness ==
    /\ kind = "PDA" /\ ret.op = "find"
    /\ min_len = DefaultMinLen
    /\ ret.seq = <<"A", "A", "T", "T">>
    /\ ret.matches = <<(<<0, 3>>)>>

\* The states of a DFA: get_states(), and state 0 of the empty pattern.
DfaStates(p) == (0..(Len(p) - 1)) \cup {0}

\* C5: the active-state set of the DFA, the NFA and the EpsilonNFA is
\* non-empty after construction, after reset and after every step; an NFA
\* step in which no transition fires leaves the active set {0}.
C5_ActiveSetNeverEmpty ==
    /\ [](Constructed =>
            /\ kind = "DFA" => current_state \in DfaStates(pattern)
            /\ kind \in {"NFA", "Epsilon-NFA"} => current_states # {})
    /\ [][(kind = "NFA" /\ ret'.op = "step"
           /\ \A u \in current_states \cup {0} :
                 <<u, Upper(ret'.sym)>> \notin DOMAIN transitions)
          => current_states' = {0}]_vars

\* C5, its case: an NFA step on a symbol no edge carries, with a pattern
\* that has edges.
C5_Witness ==
    /\ kind = "NFA" /\ ret.op = "step" /\ ret.sym = "G"
    /\ final_return_edges # {}
    /\ current_states = {0}

\* C6: in every engine a step on a symbol outside {A,T,G,C} leaves the active
\* configuration (DFA state, NFA and EpsilonNFA active set, PDA stack and
\* mode) as it was.
C6_OutOfAlphabetStepChangesNothing ==
    [][(ret'.op = "step" /\ OutOfAlphabet(ret'.sym))
       => UNCHANGED <<current_state, current_states, stack, mode>>]_vars

\* C7: in every engine a step on a symbol outside {A,T,G,C} does not raise
\* and returns is_match = false.
C7_OutOfAlphabetStepNoMatchNoError ==
    (ret.op = "step" /\ OutOfAlphabet(ret.sym))
    => ~ret.raised /\ ~ret.is_match

\* C7, its case: an out-of-alphabet symbol consumed by a spacer that may
\* enter the tail.
C7_Witness ==
    /\ kind = "Epsilon-NFA" /\ ret.op = "step" /\ OutOfAlphabet(ret.sym)
    /\ Len(tail) = 1
    /\ \E st \in current_states : st.phase = "spacer" /\ st.k > min_gap

\* C8: a DFA step on a symbol outside {A,T,G,C} returns the state the engine
\* was in and is_match = false.
C8_DfaOutOfAlphabetKeepsState ==
    [][(kind = "DFA" /\ ret'.op = "step" /\ OutOfAlphabet(ret'.sym))
       => current_state' = current_state /\ ~ret'.is_match]_vars

\* C8, its case: an out-of-alphabet symbol read in the middle of a match.
C8_Witness ==
    /\ kind = "DFA" /\ ret.op = "step" /\ OutOfAlphabet(ret.sym)
    /\ current_state > 0

\* C9: whatever was stepped before, find_all_matches(S) of the DFA and of
\* the NFA returns what a freshly constructed engine returns and leaves the
\* engine in its initial configuration; called twice in a row it returns the
\* same list.
C9_FindIsFreshAndResets ==
    /\ []((kind = "DFA" /\ ret.op = "find")
            => /\ ret.matches =
                    DfaScan(pattern, transitions, 0, ret.seq, 0, <<>>).matches
               /\ current_state = 0)
    /\ []((kind = "NFA" /\ ret.op = "find")
            => /\ \A o \in Orders(AltLens(alternatives)) :
                    ret.matches =
                       NfaScan(alternatives, transitions, final_return_edges,
                               {0}, UpperStr(ret.seq), o, 0, <<>>).matches
               /\ current_states = {0})
    /\ [][(kind \in {"DFA", "NFA"} /\ ret.op = "find" /\ ret'.op = "find"
           /\ ret'.seq = ret.seq)
          => ret'.matches = ret.matches]_vars

\* C9, its case: a search repeated directly after itself, with matches.
C9_Witness ==
    /\ kind = "NFA" /\ ret.op = "find" /\ ret.again
    /\ Len(ret.matches) > 1

\* C10: find_all_matches of the EpsilonNFA and of the PDA leaves the
\* incremental state (active set; stack, mode, position) as it was.
C10_BatchSearchKeepsIncrementalState ==
    [][(kind \in {"Epsilon-NFA", "PDA"} /\ ret'.op = "find")
       => UNCHANGED <<current_states, stack, pos, mode>>]_vars

\* C10, its case: a search in the middle of a step-wise simulation.
C10_Witness ==
    /\ ret.op = "find" /\ ret.matches # <<>>
    /\ \/ kind = "PDA" /\ mode = "pop"
       \/ kind = "Epsilon-NFA" /\ \E st \in current_states : st.phase = "tail"

\* C11: in every engine reset puts the active configuration back to what the
\* constructor set (DFA state 0; NFA active set {0}; EpsilonNFA active set
\* {head:0}; PDA empty stack, mode "push", position 0) and, as no call ever
\* changes what the constructor derived from the pattern, to the state of a
\* fresh engine of the same pattern; a reset directly after a reset changes
\* nothing.
C11_ResetRestoresFreshConfiguration ==
    /\ []((Constructed /\ ret.op \in {"init", "reset"})
            => /\ kind = "DFA" => current_state = 0
               /\ kind = "NFA" => current_states = {0}
               /\ kind = "Epsilon-NFA" => current_states = {ENFAState("head", 0)}
               /\ kind = "PDA" => stack = <<>> /\ mode = "push" /\ pos = 0)
    /\ [][UNCHANGED config]_vars
    /\ [][(ret.op = "reset" /\ ret'.op = "reset") => UNCHANGED vars]_vars

\* C11, its case: a reset of an engine that has a tail to lose.
C11_Witness ==
    /\ kind = "Epsilon-NFA" /\ ret.op = "reset"
    /\ head # <<>> /\ tail # <<>>
    /\ current_states = {ENFAState("head", 0)}

\* C12: create_automaton gives a DFA, an NFA, an EpsilonNFA or a PDA for the
\* tags "DFA", "NFA", "Epsilon-NFA" and "PDA" (the EpsilonNFA unless its own
\* parser rejects the pattern) and for every other tag it raises and no engine
\* exists.
C12_FactoryDispatch ==
    (ret.op = "init" /\ ret.tag # Direct)
    => /\ ret.tag = "DFA" => (kind = "DFA" /\ ~ret.raised)
       /\ ret.tag = "NFA" => (kind = "NFA" /\ ~ret.raised)
       /\ ret.tag = "Epsilon-NFA"
             => (kind = "Epsilon-NFA"
                 /\ ret.raised = ~ParseEnfaPattern(pattern).ok)
       /\ ret.tag = "PDA" => (kind = "PDA" /\ ~ret.raised)
       /\ ret.tag \notin {"DFA", "NFA", "Epsilon-NFA", "PDA"}
             => (ret.raised /\ kind = NoEngine /\ ~Constructed)

\* C12, its case: a tag that differs from a supported one in case only.
C12_Witness ==
    /\ ret.op = "init" /\ ret.tag = "dfa"
    /\ ret.raised /\ kind = NoEngine

AllDigits(s) == Len(s) > 0 /\ \A i \in 1..Len(s) : IsDigit(s[i])

Positions(s, c) == {i \in 1..Len(s) : s[i] = c}

\* The text between the braces is n, or lo,hi with lo <= hi, in decimal
\* digits.
BoundsShape(rng) ==
    LET commas == Positions(rng, ",")
    IN  IF commas = {} THEN AllDigits(rng)
        ELSE /\ Cardinality(commas) = 1
             /\ LET k == CHOOSE i \in commas : TRUE
                    lo == SubSeq(rng, 1, k - 1)
                    hi == SubSeq(rng, k + 1, Len(rng))
                IN  /\ AllDigits(lo) /\ AllDigits(hi)
                    /\ DigitsValue(lo, 1, 0) <= DigitsValue(hi, 1, 0)

\* The text is HEAD{min,max}TAIL or HEAD{n}TAIL: one pair of braces, HEAD
\* and TAIL over {A,T,G,C}, bounds as BoundsShape.
SpacerShape(text) ==
    /\ Cardinality(Positions(text, "{")) = 1
    /\ Cardinality(Positions(text, "}")) = 1
    /\ LET o == CHOOSE i \in Positions(text, "{") : TRUE
           c == CHOOSE i \in Positions(text, "}") : TRUE
       IN  /\ o < c
           /\ OverAlphabet(SubSeq(text, 1, o - 1))
           /\ OverAlphabet(SubSeq(text, c + 1, Len(text)))
           /\ BoundsShape(SubSeq(text, o + 1, c - 1))

\* What a text of the shape says: head, bounds and tail as written.
ShapeFields(text) ==
    LET o == CHOOSE i \in Positions(text, "{") : TRUE
        c == CHOOSE i \in Positions(text, "}") : TRUE
        rng == SubSeq(text, o + 1, c - 1)
        commas == Positions(rng, ",")
        k == CHOOSE i \in commas : TRUE
        lo == IF commas = {} THEN rng ELSE SubSeq(rng, 1, k - 1)
        hi == IF commas = {} THEN rng ELSE SubSeq(rng, k + 1, Len(rng))
    IN  <<SubSeq(text, 1, o - 1), DigitsValue(lo, 1, 0), DigitsValue(hi, 1, 0),
          SubSeq(text, c + 1, Len(text))>>

\* C13: constructing an EpsilonNFA raises, and no engine exists, for every
\* pattern text that is not HEAD{min,max}TAIL or HEAD{n}TAIL with HEAD and
\* TAIL over {A,T,G,C} and non-negative decimal bounds min <= max; for every
\* text of that shape it succeeds with head, bounds and tail as written.
C13_SpacerPatternShape ==
    (kind = "Epsilon-NFA" /\ ret.op = "init")
    => /\ ret.raised <=> ~SpacerShape(pattern)
       /\ SpacerShape(pattern)
             => <<head, min_gap, max_gap, tail>> = ShapeFields(pattern)

\* The half of C13 that holds: every text of the shape is accepted with the
\* fields as written, and every text that is rejected is not of the shape.
SpacerShapeAccepted ==
    (kind = "Epsilon-NFA" /\ ret.op = "init" /\ SpacerShape(pattern))
    => /\ ~ret.raised
       /\ <<head, min_gap, max_gap, tail>> = ShapeFields(pattern)

\* The start indices (0-based) at which the word w occurs in s.
OccurrencesOf(w, s) ==
    {i \in 0..(Len(s) - Len(w)) : SubSeq(s, i + 1, i + Len(w)) = w}

\* C14: with min_gap = max_gap = 0 and non-empty head and tail,
\* EpsilonNFA.find_all_matches(S) returns exactly one interval
\* [i, i+|head|+|tail|-1] for every index i at which head+tail occurs in S,
\* overlapping occurrences included, in ascending order.
C14_ZeroGapIsLiteralSearch ==
    (kind = "Epsilon-NFA" /\ ret.op = "find" /\ min_gap = 0 /\ max_gap = 0
        /\ head # <<>> /\ tail # <<>>)
    => LET w == head \o tail
           ms == ret.matches
       IN  /\ Elements(ms) =
                {<<i, i + Len(w) - 1>> : i \in OccurrencesOf(w, UpperStr(ret.seq))}
           /\ \A j \in 1..(Len(ms) - 1) : ms[j][1] < ms[j + 1][1]

\* C14, its case: two occurrences of head+tail that overlap.
C14_Witness ==
    /\ kind = "Epsilon-NFA" /\ ret.op = "find" /\ min_gap = 0 /\ max_gap = 0
    /\ head # <<>> /\ tail # <<>>
    /\ \E j \in 1..(Len(ret.matches) - 1) :
          ret.matches[j + 1][1] <= ret.matches[j][2]

\* The is_match values DFA.step returns while the symbols of word are fed
\* one by one, from index i (0-based) on, to an engine in state cur.
RECURSIVE DfaFeed(_, _, _, _, _)
DfaFeed(p, trans, cur, word, i) ==
    IF i >= Len(word) THEN <<>>
    ELSE LET r == DfaStepResult(p, trans, cur, word[i + 1])
         IN  <<r.is_match>> \o DfaFeed(p, trans, r.state, word, i + 1)

\* C15: when a DFA step on a non-empty pattern P over the alphabet reports
\* is_match the engine is in state 0, and feeding the symbols of P from
\* there, without a reset, reports is_match on the last symbol of P and on
\* none before it.
C15_MatchReturnsToStartAndRematches ==
    (kind = "DFA" /\ ret.op = "step" /\ ret.is_match /\ pattern # <<>>
        /\ OverAlphabet(pattern))
    => /\ current_state = 0
       /\ DfaFeed(pattern, transitions, current_state, pattern, 0)
             = [i \in 1..Len(pattern) |-> i = Len(pattern)]

\* C15, its case: a match of a pattern of several symbols reported by a step.
C15_Witness ==
    /\ kind = "DFA" /\ ret.op = "step" /\ ret.is_match
    /\ Len(pattern) > 1
    /\ current_state = 0

\* C16: every PDA step returns is_match = false, whatever the stack, the
\* mode and the symbol; and what find_all_matches returns does not depend on
\* the stack and the mode: it is what the search returns on the engine as
\* constructed.
C16_PdaStepNeverMatches ==
    /\ (kind = "PDA" /\ ret.op = "step") => ~ret.is_match
    /\ (kind = "PDA" /\ ret.op = "find")
          => ret.matches = SortedSet(MaximalSpans(UpperStr(ret.seq), min_len))

\* C16, its case: a step that shifts a full stack.
C16_Witness ==
    /\ kind = "PDA" /\ ret.op = "step" /\ ~ret.is_match
    /\ mode = "pop" /\ Len(stack) = StackCap

\* C17: a DFA built from the empty pattern stays in state 0, every step on
\* every symbol returns is_match = false without raising, and
\* find_all_matches returns the empty list for every sequence.
C17_EmptyPatternNeverMatches ==
    (kind = "DFA" /\ pattern = <<>>)
    => /\ current_state = 0
       /\ ~ret.raised
       /\ ret.op = "step" => ~ret.is_match
       /\ ret.op = "find" => ret.matches = <<>>

\* C17, its case: a search of a sequence of bases with the empty pattern.
C17_Witness ==
    /\ kind = "DFA" /\ pattern = <<>>
    /\ ret.op = "find" /\ Len(ret.seq) > 1 /\ OverAlphabet(ret.seq)
    /\ ret.matches = <<>>

\* The call the last transition made on a PDA, and what it returned.
LastPdaCall(r) ==
    [op |-> r.op, arg |-> IF r.op = "step" THEN r.sym
                          ELSE IF r.op = "find" THEN r.seq ELSE <<>>]

LastPdaOut(r) ==
    IF r.op = "step" THEN <<r.label, r.is_match>>
    ELSE IF r.op = "find" THEN r.matches ELSE <<>>

\* C18: the pattern a PDA was constructed with does not influence it: every
\* call of the engine is the method applied to self, and in every reachable
\* state every call returns the same, and leaves the same stack, position
\* and mode, on the engine that differs in the pattern alone; hence two
\* engines of different patterns and the same min_len agree on every
\* sequence of calls.
C18_PdaIgnoresPattern ==
    /\ [](kind = "PDA"
            => \A p2 \in {UpperStr(p) : p \in PdaPatterns} : \A c \in PdaCalls :
                  LET mine == PdaCall(PdaSelf, c)
                      other == PdaCall([PdaSelf EXCEPT !.pattern = p2], c)
                  IN  /\ other.out = mine.out
                      /\ other.self = [mine.self EXCEPT !.pattern = p2])
    /\ [][kind = "PDA"
            => LET done == PdaCall(PdaSelf, LastPdaCall(ret'))
               IN  done.self = PdaSelf' /\ done.out = LastPdaOut(ret')]_vars

\* C18, its case: a search with matches, between steps, on an engine whose
\* pattern is not the default.
C18_Witness ==
    /\ kind = "PDA" /\ pattern # PALINDROME
    /\ ret.op = "find" /\ ret.matches # <<>>
    /\ stack # <<>>

\* Every order in which the set S can be iterated.
RECURSIVE IterationOrders(_)
IterationOrders(S) ==
    IF S = {} THEN {<<>>}
    ELSE UNION {{<<x>> \o p : p \in IterationOrders(S \ {x})} : x \in S}

\* C19: what an operation returns and leaves does not depend on the order in
\* which a set is iterated: NFA.find_all_matches returns the same list for
\* every order of alt_lens, and NFA.step and EpsilonNFA.step return the same
\* and leave the same active set for every order of the candidates and of
\* the active states (all orders of sets of up to MaxPermuted elements);
\* nothing else in an engine is a choice, so two engines of the same type and
\* pattern given the same calls agree at every call.
C19_IterationOrderIrrelevant ==
    /\ []((kind = "NFA" /\ ret.op = "find")
            => \A o \in Orders(AltLens(alternatives)) :
                  NfaFindAllMatches(alternatives, transitions,
                                    final_return_edges, current_states,
                                    ret.seq, o)
                     = [states |-> current_states, matches |-> ret.matches])
    /\ [][(kind = "NFA" /\ ret'.op = "step"
           /\ Cardinality(NfaCandidates(current_states)) <= MaxPermuted)
          => \A o \in IterationOrders(NfaCandidates(current_states)) :
                NfaStepInOrder(transitions, final_return_edges, current_states,
                               ret'.sym, o)
                   = [states |-> current_states', is_match |-> ret'.is_match]]_vars
    /\ [][(kind = "Epsilon-NFA" /\ ret'.op = "step"
           /\ Cardinality(EpsilonClosure(current_states)) <= MaxPermuted)
          => \A o \in IterationOrders(EpsilonClosure(current_states)) :
                EnfaStepInOrder(head, min_gap, max_gap, tail, current_states,
                                ret'.sym, o)
                   = [states |-> current_states', is_match |-> ret'.is_match]]_vars

\* C19, its case: a search in which two alternatives of different lengths
\* end at the same position, so that the loop over alt_lens sees both.
C19_Witness ==
    /\ kind = "NFA" /\ ret.op = "find"
    /\ Cardinality(AltLens(alternatives)) > 1
    /\ \E j \in DOMAIN ret.matches :
          Cardinality(LengthsEndingAt(alternatives, UpperStr(ret.seq),
                                      ret.matches[j][2])) > 1

\* C20: every interval find_all_matches returns, in every engine that was
\* constructed and for every sequence S, is a closed range into S:
\* 0 <= start <= end <= |S|-1.
C20_IntervalsWithinSequence ==
    (Constructed /\ ret.op = "find")
    => \A j \in DOMAIN ret.matches :
          /\ 0 <= ret.matches[j][1]
          /\ ret.matches[j][1] <= ret.matches[j][2]
          /\ ret.matches[j][2] <= Len(ret.seq) - 1

\* What holds of C20: the intervals of the DFA, the NFA and the PDA, and of
\* an EpsilonNFA whose head, gap and tail are not all empty, are closed
\* ranges into the sequence.
IntervalsWithinSequenceUnlessEmptySpacer ==
    (Constructed /\ ret.op = "find"
        /\ ~(kind = "Epsilon-NFA" /\ head = <<>> /\ tail = <<>> /\ min_gap = 0))
    => \A j \in DOMAIN ret.matches :
          /\ 0 <= ret.matches[j][1]
          /\ ret.matches[j][1] <= ret.matches[j][2]
          /\ ret.matches[j][2] <= Len(ret.seq) - 1

\* A list of intervals in strictly ascending order: by start, and by end
\* among equal starts; a strictly ascending list repeats no interval.
StrictlyAscending(list) ==
    \A j \in 1..(Len(list) - 1) : PairLess(list[j], list[j + 1])

\* C21: for every engine and every sequence the list find_all_matches
\* returns holds no interval twice and is in ascending order of start,
\* intervals of equal start in ascending order of end.
C21_SearchListAscending ==
    (Constructed /\ ret.op = "find") => StrictlyAscending(ret.matches)

\* What holds of C21: the lists of the DFA, the EpsilonNFA and the PDA are
\* strictly ascending, and the list of the NFA is strictly ascending by end
\* position (one interval per end position, in scan order).
SearchListAscendingExceptAlternatives ==
    (Constructed /\ ret.op = "find")
    => IF kind = "NFA"
       THEN \A j \in 1..(Len(ret.matches) - 1) :
               ret.matches[j][2] < ret.matches[j + 1][2]
       ELSE StrictlyAscending(ret.matches)

C23_MatchIsTheWrapTransition ==
    [][(kind = "DFA" /\ ret'.op = "step")
       => /\ ret'.is_match
                <=> /\ Len(pattern) > 0
                    /\ current_state = Len(pattern) - 1
                    /\ Upper(ret'.sym) = pattern[Len(pattern)]
                    /\ current_state' = 0
          /\ ret'.is_match
                <=> /\ <<current_state, Upper(ret'.sym)>>
                          \in DfaGetImportantRestartEdges(pattern)
                    /\ current_state' = 0]_vars

\* C23, its case: a pattern of one character matched by a step, the last
\* state being state 0 itself.
C23_Witness ==
    /\ kind = "DFA" /\ ret.op = "step" /\ ret.is_match
    /\ Len(pattern) = 1
    /\ current_state = 0

\* delta(u, a) of the NFA: the targets of the edges of state u on symbol a,
\* the empty set when there is none.
NfaDelta(trans, u, a) == DictGet(trans, <<u, a>>, {})

\* C24: an NFA step on symbol a with active set X sets the active set to the
\* union of delta(u, a) over u in X united with {0}, or to {0} when that
\* union is empty, and returns is_match = true if and only if some u in X
\* united with {0} has a non-empty delta(u, a) and (u, a) is a final-return
\* edge or delta(u, a) contains 0 with u # 0.
C24_AlternativesStep ==
    [][(kind = "NFA" /\ ret'.op = "step")
       => LET a == Upper(ret'.sym)
              X0 == current_states \cup {0}
              U == UNION {NfaDelta(transitions, u, a) : u \in X0}
          IN  /\ current_states' = IF U = {} THEN {0} ELSE U
              /\ ret'.is_match
                    <=> \E u \in X0 :
                           /\ NfaDelta(transitions, u, a) # {}
                           /\ \/ <<u, a>> \in final_return_edges
                              \/ (0 \in NfaDelta(transitions, u, a)
                                     /\ u # 0)]_vars

\* C24, its case: a step that completed one alternative and advanced along
\* another, so the new active set holds Q0 and an inner state.
C24_Witness ==
    /\ kind = "NFA" /\ ret.op = "step" /\ ret.is_match
    /\ 0 \in current_states
    /\ \E u \in current_states : u # 0

\* The non-empty proper prefixes of the alternatives of a list.
ProperPrefixes(alts) ==
    UNION {{SubSeq(alts[j], 1, k) : k \in 1..(Len(alts[j]) - 1)} :
              j \in DOMAIN alts}

\* The states other than Q0 that the edges of the graph lead to from the
\* states S along the characters of w from number i on (1-based).
RECURSIVE TrieWalk(_, _, _, _)
TrieWalk(trans, w, i, S) ==
    IF i > Len(w) THEN S
    ELSE TrieWalk(trans, w, i + 1,
                  UNION {NfaDelta(trans, u, w[i]) \ {0} : u \in S})

\* The states reached from Q0 by the prefix w along edges between states of
\* the trie ({Q0} for the empty prefix).
TrieStates(trans, w) == TrieWalk(trans, w, 1, {0})

\* w minus its last character.
Front(w) == SubSeq(w, 1, Len(w) - 1)

\* C25: the graph of an NFA has exactly one state per distinct non-empty
\* proper prefix of an alternative, plus state 0 (alternatives sharing a
\* prefix share its states); for every alternative w the state reached by w
\* minus its last character has an edge on w's last character to state 0;
\* and get_important_restart_edges returns exactly those (state, last
\* character) pairs.
C25_AlternativesGraphIsPrefixTrie ==
    kind = "NFA"
    => LET P == ProperPrefixes(alternatives)
           Q == NfaGetStates(next_state_id)
           W == {alternatives[j] : j \in {k \in DOMAIN alternatives :
                                             alternatives[k] # <<>>}}
           St(p) == TrieStates(transitions, p)
       IN  /\ \A p \in P : Cardinality(St(p)) = 1
           /\ \A p \in P : \A q \in P : p # q => St(p) \cap St(q) = {}
           /\ Q = {0} \cup UNION {St(p) : p \in P}
           /\ Cardinality(Q) = 1 + Cardinality(P)
           /\ \A w \in W : \A u \in St(Front(w)) :
                 0 \in NfaDelta(transitions, u, w[Len(w)])
           /\ NfaGetImportantRestartEdges(final_return_edges)
                 = UNION {{<<u, w[Len(w)]>> : u \in St(Front(w))} : w \in W}

\* C25, its case: a graph built from two alternatives that share a prefix
\* and end on different characters.
C25_Witness ==
    /\ kind = "NFA" /\ ret.op = "init"
    /\ \E j \in DOMAIN alternatives : \E k \in DOMAIN alternatives :
          /\ alternatives[j] # alternatives[k]
          /\ Len(alternatives[j]) > 1 /\ Len(alternatives[k]) > 1
          /\ Front(alternatives[j]) = Front(alternatives[k])
    /\ Cardinality(final_return_edges) = 2

\* The states an EpsilonNFA of the given head, tail and max_gap can name.
EnfaStateSpace(h, hi, tl) ==
    {ENFAState(phase, k) : phase \in {"head", "spacer", "tail"},
                           k \in 0..(Len(h) + hi + Len(tl) + 1)}

\* The successor relation of C26: state t follows state st on symbol a.
SpacerSuccessor(h, lo, hi, tl, st, a, t) ==
    \/ /\ st.phase = "head" /\ st.k < Len(h) /\ h[st.k + 1] = a
       /\ t = IF st.k + 1 = Len(h) THEN ENFAState("spacer", 0)
              ELSE ENFAState("head", st.k + 1)
    \/ /\ st.phase = "spacer" /\ st.k < hi
       /\ t = ENFAState("spacer", st.k + 1)
    \/ /\ st.phase = "spacer" /\ st.k >= lo /\ Len(tl) > 0 /\ tl[1] = a
       /\ t = ENFAState("tail", 1)
    \/ /\ st.phase = "tail" /\ st.k < Len(tl) /\ tl[st.k + 1] = a
       /\ t = ENFAState("tail", st.k + 1)

\* C26: (head,0) is in the active set of an EpsilonNFA after reset and
\* after every step; a step on symbol a maps the states of the closed active
\* set as follows and produces no other successor: (head,k) with head[k] = a
\* goes to (head,k+1), or to (spacer,0) when k+1 = |head|; (spacer,g) goes
\* to (spacer,g+1) when g < max_gap and, independently, to (tail,1) when
\* g >= min_gap and a = tail[0]; (tail,k) with k < |tail| and tail[k] = a
\* goes to (tail,k+1); is_match is true exactly when (tail,|tail|) is in the
\* resulting active set.
C26_SpacerStep ==
    /\ []((kind = "Epsilon-NFA" /\ Constructed /\ ret.op \in {"init", "reset", "step"})
             => ENFAState("head", 0) \in current_states)
    /\ [][(kind = "Epsilon-NFA" /\ ret'.op = "step")
          => LET a == Upper(ret'.sym)
                 closed == current_states \cup {ENFAState("head", 0)}
                 succ == {t \in EnfaStateSpace(head, max_gap, tail) :
                             \E st \in closed :
                                SpacerSuccessor(head, min_gap, max_gap, tail,
                                                st, a, t)}
             IN  /\ current_states \subseteq EnfaStateSpace(head, max_gap, tail)
                 /\ current_states' = succ \cup {ENFAState("head", 0)}
                 /\ ret'.is_match
                       <=> ENFAState("tail", Len(tail)) \in current_states']_vars

\* C26, its case: a step on which one spacer state both advanced in the
\* spacer and entered the tail, completing a tail of one symbol.
C26_Witness ==
    /\ kind = "Epsilon-NFA" /\ ret.op = "step" /\ ret.is_match
    /\ min_gap < max_gap /\ Len(head) = 1 /\ Len(tail) = 1
    /\ ENFAState("tail", 1) \in current_states
    /\ ENFAState("spacer", max_gap) \in current_states
    /\ ENFAState("spacer", 0) \in current_states

\* The end positions of the intervals of a list.
EndsOf(matches) == {matches[j][2] : j \in DOMAIN matches}

\* C27: for an EpsilonNFA with non-empty head and non-empty tail and a
\* sequence S over the alphabet, stepping through S after a reset reports
\* is_match at position e if and only if find_all_matches(S) contains an
\* interval ending at e.
C27_SpacerStepAgreesWithBatch ==
    (kind = "Epsilon-NFA" /\ Constructed /\ ret.op = "find"
        /\ head # <<>> /\ tail # <<>> /\ OverAlphabet(ret.seq))
    => LET fed == EnfaFeed(head, min_gap, max_gap, tail, EnfaResetStates,
                           ret.seq, 0)
       IN  /\ Len(fed) = Len(ret.seq)
           /\ \A e \in 0..(Len(ret.seq) - 1) :
                 fed[e + 1] <=> e \in EndsOf(ret.matches)

\* C27, its case: a search with a gap range that returned two intervals of
\* one end position and an interval of another, with a position between
\* them where nothing ends.
C27_Witness ==
    /\ kind = "Epsilon-NFA" /\ Constructed /\ ret.op = "find"
    /\ head # <<>> /\ tail # <<>> /\ min_gap < max_gap
    /\ OverAlphabet(ret.seq)
    /\ \E j \in DOMAIN ret.matches : \E k \in DOMAIN ret.matches :
          j # k /\ ret.matches[j][2] = ret.matches[k][2]
    /\ Cardinality(EndsOf(ret.matches)) >= 2
    /\ \E e \in 1..(Len(ret.seq) - 1) : e \notin EndsOf(ret.matches)

\* C28: for an NFA whose alternatives are non-empty and over the alphabet
\* and a sequence S over the alphabet, stepping through S after a reset
\* reports is_match at position e if and only if some alternative is a
\* suffix of S[0..e], whatever partial paths are in flight.
C28_AlternativesStepMatchesSuffix ==
    (kind = "NFA" /\ ret.op = "find" /\ OverAlphabet(ret.seq)
        /\ \A j \in DOMAIN alternatives :
              alternatives[j] # <<>> /\ OverAlphabet(alternatives[j]))
    => LET fed == NfaFeed(transitions, final_return_edges, NfaResetStates,
                          ret.seq, 0)
       IN  /\ Len(fed) = Len(ret.seq)
           /\ \A e \in 0..(Len(ret.seq) - 1) :
                 fed[e + 1] <=> \E j \in DOMAIN alternatives :
                                   EndsAt(alternatives[j], ret.seq, e)

\* C28, its case: a short alternative ends inside an occurrence of a longer
\* one, which ends on the next symbol.
C28_Witness ==
    /\ kind = "NFA" /\ ret.op = "find" /\ OverAlphabet(ret.seq)
    /\ \E j \in DOMAIN alternatives : \E k \in DOMAIN alternatives :
       \E e \in 0..(Len(ret.seq) - 2) :
          /\ Len(alternatives[j]) > 0
          /\ Len(alternatives[k]) > Len(alternatives[j]) + 1
          /\ EndsAt(alternatives[j], ret.seq, e)
          /\ EndsAt(alternatives[k], ret.seq, e + 1)

\* C29: for a DFA with a non-empty pattern P over the alphabet and a
\* sequence S over the alphabet, after a reset and any number of steps on
\* the symbols of S the engine being in state j implies that the last j
\* symbols read are P[0..j-1]; hence every interval find_all_matches(S)
\* returns is an occurrence of P.
C29_DfaStateIsMatchedPrefix ==
    (kind = "DFA" /\ ret.op = "find" /\ ~ret.raised /\ pattern # <<>>
        /\ OverAlphabet(pattern) /\ OverAlphabet(ret.seq))
    => LET run == DfaRun(pattern, transitions, DfaResetState, ret.seq, 0)
       IN  /\ Len(run) = Len(ret.seq)
           /\ \A k \in 1..Len(ret.seq) :
                 /\ 0 <= run[k] /\ run[k] <= k
                 /\ SubSeq(ret.seq, k - run[k] + 1, k)
                       = SubSeq(pattern, 1, run[k])
           /\ \A j \in DOMAIN ret.matches :
                 /\ ret.matches[j][1] = ret.matches[j][2] - Len(pattern) + 1
                 /\ EndsAt(pattern, ret.seq, ret.matches[j][2])

\* C29, its case: a search over the alphabet in which a mismatch on the
\* pattern's first character restarted the chain at state 1, and which
\* returned an occurrence.
C29_Witness ==
    /\ kind = "DFA" /\ ret.op = "find" /\ Len(pattern) >= 2
    /\ OverAlphabet(pattern) /\ OverAlphabet(ret.seq)
    /\ ret.matches # <<>>
    /\ LET run == DfaRun(pattern, transitions, DfaResetState, ret.seq, 0)
       IN  \E k \in 1..(Len(run) - 1) :
              /\ run[k] >= 1 /\ run[k + 1] = 1
              /\ ret.seq[k + 1] # pattern[run[k] + 1]

\* C30: for a DFA and a sequence S that may hold symbols outside the
\* alphabet, every interval [s, e] find_all_matches(S) returns satisfies
\* S[s..e] = P.
C30_DfaIntervalsAreOccurrencesWithForeignSymbols ==
    (kind = "DFA" /\ ret.op = "find" /\ ~ret.raised)
    => \A j \in DOMAIN ret.matches :
          /\ 0 <= ret.matches[j][1]
          /\ ret.matches[j][2] < Len(ret.seq)
          /\ SubSeq(UpperStr(ret.seq), ret.matches[j][1] + 1,
                    ret.matches[j][2] + 1) = pattern

\* An exported automaton all of whose initial, accepting and current
\* states, and all sources and destinations of whose transitions, are among
\* its states Q.
WellFormedExport(Q, initial, accept, current, trans) ==
    /\ initial \subseteq Q
    /\ accept \subseteq Q
    /\ current \subseteq Q
    /\ \A k \in DOMAIN trans : k[1] \in Q /\ trans[k] \subseteq Q

\* The automaton the engine exports in the current configuration is
\* well-formed (the PDA exports none).
ExportIsWellFormed ==
    CASE kind = "DFA" ->
            WellFormedExport(DfaGetStates(pattern), DfaGetInitialStates,
                             DfaGetAcceptStates,
                             DfaGetCurrentStates(current_state),
                             DfaGetTransitions(transitions))
      [] kind = "NFA" ->
            WellFormedExport(NfaGetStates(next_state_id), NfaGetInitialStates,
                             NfaGetAcceptStates,
                             NfaGetCurrentStates(current_states),
                             NfaGetTransitions(transitions))
      [] kind = "Epsilon-NFA" ->
            WellFormedExport(EnfaGetStates(head, max_gap, tail),
                             EnfaGetInitialStates, EnfaGetAcceptStates(tail),
                             EnfaGetCurrentStates(current_states),
                             EnfaGetTransitions(head, min_gap, max_gap, tail))
      [] OTHER -> TRUE

\* C31: for the DFA, the NFA and the EpsilonNFA and every constructible
\* pattern, the empty DFA pattern included, in every reachable configuration
\* the initial states, the accept states, the current states and every
\* source and destination of the exported transitions are members of
\* get_states().
C31_ExportedAutomatonWellFormed ==
    Constructed => ExportIsWellFormed

\* What holds of C31: the export is well-formed for every NFA and
\* EpsilonNFA and for every DFA of a non-empty pattern.
ExportWellFormedUnlessEmptyDfaPattern ==
    (Constructed /\ ~(kind = "DFA" /\ pattern = <<>>)) => ExportIsWellFormed

\* C32: every constructed EpsilonNFA has 0 <= min_gap <= max_gap; no reset,
\* step or find_all_matches changes head, min_gap, max_gap or tail; every
\* active (spacer,g) has 0 <= g <= max_gap, every active (head,k) has
\* 0 <= k < max(1,|head|), and every active (tail,k) has 1 <= k <= |tail|.
C32_SpacerBoundsAndActiveStates ==
    /\ []((kind = "Epsilon-NFA" /\ Constructed)
             => /\ 0 <= min_gap /\ min_gap <= max_gap
                /\ \A st \in current_states :
                      /\ st.phase \in {"head", "spacer", "tail"}
                      /\ st.phase = "spacer" => 0 <= st.k /\ st.k <= max_gap
                      /\ st.phase = "head"
                            => 0 <= st.k /\ st.k < Maximum({1, Len(head)})
                      /\ st.phase = "tail" => 1 <= st.k /\ st.k <= Len(tail))
    /\ [][kind = "Epsilon-NFA" => UNCHANGED <<head, min_gap, max_gap, tail>>]_vars

\* C32, its case: an engine of a positive fixed gap whose steps filled the
\* spacer to max_gap and completed the tail.
C32_Witness ==
    /\ kind = "Epsilon-NFA" /\ Constructed /\ ret.op = "step"
    /\ 0 < min_gap /\ min_gap = max_gap
    /\ ENFAState("spacer", max_gap) \in current_states
    /\ ENFAState("tail", Len(tail)) \in current_states
    /\ Len(tail) > 0

\* The last n symbols of w, all of w when it has fewer.
LastSymbols(w, n) ==
    SubSeq(w, IF Len(w) > n THEN Len(w) - n + 1 ELSE 1, Len(w))

\* The words stepped through a PDA after a reset.
PdaWords == SeqsUpTo(PdaStepSymbols, MaxPos)

\* C33: after a reset of the PDA followed by k steps on x1..xk the stack
\* holds exactly the last min(k,8) symbols (as the step reads them, in upper
\* case), oldest first, and never more than 8; the step returns the label
\* "pop" exactly when the pushed symbol made the length exceed 8 and the
\* oldest symbol was discarded (k >= 9), and "push" otherwise.
C33_PdaStackHoldsLastEight ==
    /\ [](kind = "PDA"
             => /\ Len(stack) <= 8
                /\ Len(stack) = IF pos < 8 THEN pos ELSE 8
                /\ ret.op = "step"
                      => /\ ret.label \in {"push", "pop"}
                         /\ ret.label = "pop" <=> pos >= 9)
    /\ [][(kind = "PDA" /\ ret'.op = "step")
          => /\ pos' = pos + 1
             /\ stack' = LastSymbols(Append(stack, Upper(ret'.sym)), 8)
             /\ ret'.label = "pop"
                   <=> (Len(stack) + 1 > 8 /\ stack' = Tail(Append(stack, Upper(ret'.sym))))]_vars
    /\ []((kind = "PDA" /\ ret.op = "reset")
             => \A w \in PdaWords :
                   LET f == PdaFeed(stack, pos, mode, w, 0)
                   IN  /\ f.stack = LastSymbols(UpperStr(w), 8)
                       /\ f.pos = Len(w)
                       /\ f.mode = IF Len(w) >= 9 THEN "pop" ELSE "push")

\* C33, its case: the ninth step after a reset, which discarded the oldest
\* symbol of a stack holding different symbols.
C33_Witness ==
    /\ kind = "PDA" /\ ret.op = "step" /\ ret.label = "pop"
    /\ pos = 9 /\ Len(stack) = 8
    /\ stack[1] # stack[2] /\ stack[7] # stack[8]

\* The symbols of s (0-based positions) that the interval iv covers.
CoveredSymbols(s, iv) == {s[i + 1] : i \in iv[1]..iv[2]}

\* C34: for the PDA and every sequence S over arbitrary characters, a symbol
\* outside {A,T,G,C} never pairs during center expansion, so no interval
\* find_all_matches(S) returns contains a symbol outside {A,T,G,C}.
C34_PalindromeIntervalsHoldOnlyBases ==
    (kind = "PDA" /\ ret.op = "find")
    => \A j \in DOMAIN ret.matches :
          CoveredSymbols(UpperStr(ret.seq), ret.matches[j]) \subseteq alphabet

\* What holds of C34: the intervals returned for a sequence that does not
\* hold the character "?", which _comp returns for a symbol outside
\* {A,T,G,C}, cover symbols of {A,T,G,C} only.
PalindromeIntervalsHoldOnlyBasesWithoutSentinel ==
    (kind = "PDA" /\ ret.op = "find"
        /\ \A i \in DOMAIN ret.seq : ret.seq[i] # "?")
    => \A j \in DOMAIN ret.matches :
          CoveredSymbols(UpperStr(ret.seq), ret.matches[j]) \subseteq alphabet

\* The move of step from state s on symbol a to state t is in the exported
\* relation: t is in the exported set of (s, a), or (head,|head|) is and t
\* is (spacer,0), its exported epsilon successor.
MoveIsExported(h, lo, hi, tl, s, a, t) ==
    LET exported == EnfaGetTransitions(h, lo, hi, tl)
        targets == DictGet(exported, <<s, a>>, {})
        atEnd == ENFAState("head", Len(h))
    IN  \/ t \in targets
        \/ /\ atEnd \in targets
           /\ t = ENFAState("spacer", 0)
           /\ t \in DictGet(exported, <<atEnd, None>>, {})

\* C35: every move an EpsilonNFA step makes from an active state s on symbol
\* a to a state t (the re-adding of (head,0) aside) is in the relation
\* get_transitions() exports, directly or through the epsilon edge from
\* (head,|head|); in particular the entry into (tail,1) from every spacer
\* count g with min_gap <= g <= max_gap.
C35_SpacerMovesAreExported ==
    [][(kind = "Epsilon-NFA" /\ ret'.op = "step")
       => \A s \in EpsilonClosure(current_states) :
             \A t \in EnfaMoves(head, min_gap, max_gap, tail, s,
                                Upper(ret'.sym)) :
                MoveIsExported(head, min_gap, max_gap, tail, s,
                               Upper(ret'.sym), t)]_vars

\* What holds of C35: the moves on a symbol of {A,T,G,C} from a head state,
\* a tail state, or a spacer state of count below max_gap are exported.
SpacerMovesBelowMaxGapAreExported ==
    [][(kind = "Epsilon-NFA" /\ ret'.op = "step"
           /\ Upper(ret'.sym) \in alphabet)
       => \A s \in EpsilonClosure(current_states) :
             (s.phase = "spacer" => s.k < max_gap)
             => \A t \in EnfaMoves(head, min_gap, max_gap, tail, s,
                                   Upper(ret'.sym)) :
                   MoveIsExported(head, min_gap, max_gap, tail, s,
                                  Upper(ret'.sym), t)]_vars

\* The smaller of two integers.
Minimum(a, b) == IF a < b THEN a ELSE b

\* What the search a frame is running returns when computed in one piece.
SearchResults ==
    CASE kind = "DFA" ->
            {DfaFindAllMatches(pattern, transitions, current_state,
                               frame.sequence).matches}
      [] kind = "NFA" ->
            {NfaFindAllMatches(alternatives, transitions, final_return_edges,
                               current_states, frame.sequence, order).matches :
                order \in Orders(AltLens(alternatives))}
      [] kind = "Epsilon-NFA" ->
            {EnfaFindAllMatches(head, min_gap, max_gap, tail, frame.sequence)}
      [] OTHER -> {PdaFindAllMatches(min_len, frame.sequence)}

\* C36: for every engine and every finite sequence S, find_all_matches(S)
\* terminates and returns a list (the one the search computes); each center
\* expansion of the PDA makes at most min(i+1, |S|-i-1) successful
\* extensions for center (i, i+1), l strictly decreasing and r strictly
\* increasing until a bound or a mismatch is hit.
C36_SearchTerminates ==
    /\ (frame.pc # "idle") ~> (frame.pc = "idle" /\ ret.op = "find")
    /\ [](ret.op = "find"
             => /\ DOMAIN ret.matches = 1..Len(ret.matches)
                /\ \A j \in DOMAIN ret.matches :
                      ret.matches[j] \in Int \X Int)
    /\ []((kind = "PDA" /\ frame.pc = "while")
             => /\ frame.i - frame.l = frame.r - (frame.i + 1)
                /\ 0 <= frame.i - frame.l
                /\ frame.i - frame.l
                      <= Minimum(frame.i + 1, Len(frame.s) - frame.i - 1))
    /\ [][(kind = "PDA" /\ frame.pc = "while" /\ frame'.pc = "while")
          => frame'.l < frame.l /\ frame'.r > frame.r]_vars
    /\ [][(frame.pc = "return" /\ frame'.pc = "idle")
          => /\ ret'.op = "find" /\ ret'.seq = frame.sequence
             /\ ret'.matches \in SearchResults]_vars

\* C36, its case: the expansion around center (1, 2) of a sequence of four
\* symbols has made min(i+1, |S|-i-1) = 2 successful extensions and stands
\* at both ends of the sequence.
C36_Witness ==
    /\ kind = "PDA" /\ frame.pc = "while"
    /\ Len(frame.s) = 4 /\ frame.i = 1
    /\ frame.l = -1 /\ frame.r = 4

====
